---- MODULE Spec2Model ----
(***************************************************************************)
(* The transcription worker of src/worker/main.py as a state machine: the  *)
(* job loop (lease sweep, media fetch, transcription, segment persistence  *)
(* with retry, diarization alignment, completion) and the pure helpers it  *)
(* calls.  Times are integers in milliseconds, as the code converts them.  *)
(***************************************************************************)
EXTENDS Integers, Sequences, FiniteSets, TLC

VARIABLES
  BASE_URLS,                \* resolved endpoint list (main.py:118)
  WHISPER_AVAILABLE,        \* main.py:11-17
  SIMULATE_WHISPER,         \* main.py:43
  DIARIZATION_AVAILABLE,    \* main.py:12,26
  AUTO_DIARIZATION_ASSIGN,  \* main.py:51
  CHUNK_SECONDS,            \* main.py:49
  SIMULATE_WORDS_PER_SEG,   \* main.py:207, read at every call
  startup,                  \* what build_base_list met at startup: the
                            \* entries of RAW_BASE_URLS, AUTO_FALLBACK, the
                            \* addresses whose health probe succeeds
  TRANSCRIPTION_RTF,        \* main.py:384, the setting: whether float()
                            \* takes it, and its value in ten-thousandths
  word_i, cursor_ms,        \* main.py:210-212, locals of build_fake_segments
  pc,                       \* position of the worker in main()
  sweep_i,                  \* index of the endpoint the sweep polls next
  leased, leased_base,      \* main.py:293-294
  base,                     \* main.py:309
  media, content,           \* main.py:312
  total_ms,                 \* main.py:315-320
  segments,                 \* main.py:321-336
  segs, idx_counter, chunk_index, \* transcribe_real locals (main.py:379, 439-440)
  n_chunks,                 \* chunk files the transcoding tool left
  seg_src,                  \* for each segment of segs on the chunk path: its
                            \* chunk and the times the engine reported
  progress,                 \* progress payloads pushed for the job, in order
  tr_faults,                \* what failed inside transcribe_real so far: the
                            \* engine, a progress push (transport or status)
  tmp_files,                \* temporary files written for the job that are
                            \* on disk (main.py:366-369, 397-399, 426, 514-541)
  attempts, initial_delay,  \* post_segments_with_retry parameters
  attempt, delay,           \* post_segments_with_retry locals
  posted,                   \* main.py:337
  post_calls, slept,        \* posts made and sleeps taken by the retry loop;
                            \* slept also takes the sleep after an empty sweep
  turns,                    \* main.py:570
  participants,             \* main.py:578
  label_to_part,            \* main.py:587
  seg_part,                 \* backend: participant of each persisted segment
  create_log, assign_log,   \* participant creations and assignment calls
  unassigned_seen,          \* main.py:627, ids the fill-pass found unassigned
  fetched,                  \* main.py:578, the participants as first fetched
  diar_status,              \* how far the diarization pass of the job got
  home,                     \* index of the endpoint whose lease returned the job
  held,                     \* TRUE from a successful lease to the job's end
  lease_calls,              \* lease calls made in the current sweep
  outcome,                  \* how the latest job ended
  calls,                    \* backend calls made for the held job
  n_complete, n_fail,       \* complete / fail calls made for the held job
  fail_msg_len,             \* length of the message sent with fail
  last_op,                  \* the latest backend call
  raised_in                 \* stage whose exception reached the loop handlers

env == <<BASE_URLS, WHISPER_AVAILABLE, SIMULATE_WHISPER, DIARIZATION_AVAILABLE,
         AUTO_DIARIZATION_ASSIGN, CHUNK_SECONDS, SIMULATE_WORDS_PER_SEG,
         TRANSCRIPTION_RTF, startup, word_i, cursor_ms>>
jobvars == <<leased, leased_base, base, media, content, total_ms>>
trlocals == <<segs, idx_counter, chunk_index, n_chunks, seg_src, progress,
              tr_faults>>
trvars == <<trlocals, tmp_files>>
retryvars == <<attempts, initial_delay, attempt, delay, posted, post_calls, slept>>
diarvars == <<turns, participants, label_to_part, seg_part, create_log,
              assign_log, unassigned_seen, fetched, diar_status>>
ghost == <<home, held, lease_calls, outcome, calls, n_complete, n_fail, fail_msg_len,
           last_op, raised_in>>
vars == <<env, pc, sweep_i, jobvars, segments, trvars, retryvars, diarvars, ghost>>

-----------------------------------------------------------------------------
(* Bounds of the model *)

MaxAttempts == 4      \* largest attempts value the retry specification draws
MaxDelay == 3         \* largest initial delay the retry specification draws
MaxTurns == 2         \* longest turn list the diarization specification draws
MaxChunks == 2        \* most chunk files the transcoding tool leaves
TimeResolution == 2   \* engine time units per millisecond in a turn's times

(* Program constants *)

POLL_INTERVAL_SEC == 5
DEFAULT_ATTEMPTS == 3
DEFAULT_INITIAL_DELAY == 2
DEFAULT_WORDS_PER_SEG == 8
TEXT_CAP == 500
max_segments == 500
per_word_ms == 320
GAP_MS == 120
TARGET_SEGMENTS == 12
BYTES_PER_SECOND == 32000
TRIM_MS == 200
FAIL_MESSAGE_CAP == 500
BULK_FAIL_MESSAGE_LEN == 40
DEFAULT_RTF_E4 == 5000    \* 0.5 in ten-thousandths
PROGRESS_EVERY == 10

Min(a, b) == IF a <= b THEN a ELSE b
Max(a, b) == IF a >= b THEN a ELSE b
Abs(x) == IF x < 0 THEN -x ELSE x

-----------------------------------------------------------------------------
(* Endpoint resolution: resolve_base_url and build_base_list *)

BASE_URL == "http://backend:5000/api"
OTHER_URL == "http://backend2:5000/api"
FALLBACK_URL == "http://host.docker.internal:5002/api"
DOCKER_URL == "http://host.docker.internal:8080/api"
NoUrl == ""

\* 'host.docker.internal' in original
HasDockerHost(u) == u \in {FALLBACK_URL, DOCKER_URL}

\* variant: with both probes failed the original is kept
resolve_base_url_keeping(original, autoFallback, origOk, fbOk) ==
  IF HasDockerHost(original) \/ ~autoFallback \/ origOk \/ ~fbOk
  THEN original ELSE FALLBACK_URL

\* origOk / fbOk: whether the health probe of the original / fallback succeeds
resolve_base_url(original, autoFallback, origOk, fbOk) ==
  IF HasDockerHost(original) THEN original
  ELSE IF ~autoFallback THEN original
  ELSE IF origOk THEN original
  ELSE IF fbOk THEN FALLBACK_URL
  ELSE FALLBACK_URL

\* raw: the comma-separated entries of RAW_BASE_URLS, stripped ("" for a blank
\* entry, <<>> when the variable is unset); healthy: the reachable addresses
build_base_list(raw, autoFallback, healthy) ==
  LET stripped == SelectSeq(raw, LAMBDA u : u # NoUrl)
      urls == IF stripped = <<>> THEN <<BASE_URL>> ELSE stripped
  IN [k \in 1..Len(urls) |->
        resolve_base_url(urls[k], autoFallback, urls[k] \in healthy,
                         FALLBACK_URL \in healthy)]

RawLists == {<<>>, <<BASE_URL, NoUrl, OTHER_URL>>}

\* once BASE_URLS is built its inputs are of no further use
NoStartup == [raw |-> <<>>, auto |-> FALSE, healthy |-> {}]

ResolvedLists ==
  {build_base_list(raw, auto, healthy) :
     raw \in RawLists, auto \in BOOLEAN,
     healthy \in {{}, {BASE_URL, OTHER_URL, FALLBACK_URL}}}

-----------------------------------------------------------------------------
(* Media, content and segments *)

NoJob == [id |-> 0, mediaFileId |-> 0]
NoMedia == [id |-> 0, textual |-> FALSE, durationSec |-> 0]
NoContent == [isStr |-> FALSE, size |-> 0, words |-> 0]
Unparsable == -1     \* a durationSec that int() rejects

\* content: isStr says str (decoded text) or bytes, size its length, words the
\* number of whitespace-separated words in it
Truthy(c) == c.size > 0
SIM_DEFAULT_TEXT == [isStr |-> TRUE, size |-> 32, words |-> 3]
FALLBACK_DEFAULT_TEXT == [isStr |-> TRUE, size |-> 33, words |-> 3]

\* the words of a text are taken to be equally long and one space apart
WordLen(text) ==
  IF text.words = 0 THEN 0 ELSE (text.size + 1) \div text.words - 1

\* len(' '.join(chunk)[:500]) for n words of length wlen
JoinedChars(n, wlen) == Min(n * wlen + (n - 1), TEXT_CAP)

\* variant: the next segment starts where the last one ends
NextCursorNoGap(end_ms) == end_ms

\* main.py:225: cursor_ms = end_ms + 120
NextCursor(end_ms) == end_ms + GAP_MS

\* the loop of build_fake_segments from word index i on; a segment's text is
\* the words first .. first + n - 1, cut to chars characters
\* main.py:212-224: the segment one pass of the loop appends, for the words
\* i .. i + n - 1
FakeSegment(nwords, wlen, chunk_size, i, k, cursor) ==
  LET n == Min(chunk_size, nwords - i)
      start_ms == cursor
      end_ms == start_ms + n * per_word_ms
  IN [idx |-> k, startMs |-> start_ms, endMs |-> end_ms,
      text |-> [kind |-> "words", first |-> i, n |-> n,
                chars |-> JoinedChars(n, wlen)]]

\* main.py:211-213: the loop goes on while words are left and the list is
\* shorter than max_segments
FakeMore(nwords, i, k) == i < nwords /\ k < max_segments

RECURSIVE FakeLoop(_, _, _, _, _, _)
FakeLoop(nwords, wlen, chunk_size, i, acc, cursor) ==
  IF ~FakeMore(nwords, i, Len(acc)) THEN acc
  ELSE LET seg == FakeSegment(nwords, wlen, chunk_size, i, Len(acc), cursor)
       IN FakeLoop(nwords, wlen, chunk_size, i + chunk_size, Append(acc, seg),
                   NextCursor(seg.endMs))

\* ' '.join(chunk) raises TypeError when the words are bytes
build_fake_raises(text) == ~text.isStr /\ text.words > 0

build_fake_segments(text) ==
  FakeLoop(text.words, WordLen(text), Max(1, SIMULATE_WORDS_PER_SEG), 0, <<>>, 0)

\* int(media['durationSec']) * 1000, None (here -1) when absent or rejected
DurationMs(m) ==
  IF m.durationSec = 0 \/ m.durationSec = Unparsable THEN -1
  ELSE m.durationSec * 1000

\* variant: the estimate from the byte size is used as it is
EstimateUnfloored(estimate_ms) == estimate_ms

\* main.py:241: duration_ms = max(duration_ms, target_segments * 1000)
EstimateFloored(estimate_ms) == Max(estimate_ms, TARGET_SEGMENTS * 1000)

build_placeholder_segments(m, file_size_bytes) ==
  LET declared == DurationMs(m)
      duration_ms == IF declared # -1 THEN declared
                     ELSE EstimateFloored(
                            (file_size_bytes * 1000) \div BYTES_PER_SECOND)
      seg_length == duration_ms \div TARGET_SEGMENTS
  IN [k \in 1..TARGET_SEGMENTS |->
        [idx |-> k - 1, startMs |-> (k - 1) * seg_length,
         endMs |-> (k - 1) * seg_length + seg_length - TRIM_MS,
         text |-> [kind |-> "simulated", first |-> k, n |-> 1]]]

\* what fetch_media may return: a textual file decoded to str, or bytes
Medias ==
  {[media |-> [id |-> 1, textual |-> TRUE, durationSec |-> 0],
    content |-> [isStr |-> TRUE, size |-> sz[1], words |-> sz[2]]] :
      sz \in {<<0, 0>>, <<3, 0>>, <<19, 10>>}}
  \cup
  {[media |-> [id |-> 1, textual |-> FALSE, durationSec |-> d],
    content |-> [isStr |-> FALSE, size |-> sz[1], words |-> sz[2]]] :
      d \in {0, 2, 60}, sz \in {<<0, 0>>, <<320000, 5>>}}
  \cup
  {[media |-> [id |-> 1, textual |-> FALSE, durationSec |-> Unparsable],
    content |-> [isStr |-> FALSE, size |-> 3, words |-> 0]]}

\* spans an ASR run may report, already converted by int(seg.start * 1000);
\* the last one ends after the nominal length of a chunk of CHUNK_SECONDS
AsrOutputs ==
  {<<>>, <<[startMs |-> 0, endMs |-> 1000]>>,
   <<[startMs |-> 0, endMs |-> 1000], [startMs |-> 1000, endMs |-> 2000]>>,
   <<[startMs |-> 1500, endMs |-> 2500]>>}

NoProgress == -1     \* a progress field that is None

\* the setting when TRANSCRIPTION_RTF is not in the environment: '0.5'
DefaultRtf == [parses |-> TRUE, e4 |-> DEFAULT_RTF_E4]

\* variant: the setting is used as it parses
RtfUnchecked(cfg) == cfg.e4

\* main.py:383-388: rtf in ten-thousandths; a setting float() rejects, or
\* one that is zero or negative, gives 0.5
Rtf(cfg) == IF ~cfg.parses \/ cfg.e4 <= 0 THEN DEFAULT_RTF_E4 ELSE cfg.e4

\* main.py:393: max(1, int(1000 * rtf))
RtfDivisor == Max(1, Rtf(TRANSCRIPTION_RTF) \div 10)

\* main.py:389-394: estimate_eta of transcribe_real
estimate_eta(proc_ms, tot_ms) ==
  IF tot_ms = NoProgress \/ tot_ms = 0 THEN NoProgress
  ELSE LET remaining_ms == Max(0, tot_ms - proc_ms)
           secs == remaining_ms \div RtfDivisor
       IN Max(1, secs)

\* the payload patch_progress sends
ProgressPayload(processed, tot_ms) ==
  [processedMs |-> processed, totalMs |-> tot_ms,
   etaSeconds |-> estimate_eta(processed, tot_ms)]

\* variant: the request is made whatever the payload holds
SendsAlways(payload) == TRUE

\* main.py:158-166: a field that is None is left out, and an empty payload
\* returns before any request
Sends(payload) ==
  \/ payload.processedMs # NoProgress
  \/ payload.totalMs # NoProgress
  \/ payload.etaSeconds # NoProgress

\* the payloads of seq that make a request
Sent(seq) == SelectSeq(seq, Sends)

\* how a progress request can fail: requests raises, or the status is not a
\* success and raise_for_status raises (main.py:169-173)
PushFaults == {"push_transport", "push_http"}

\* the failures n requests can meet
PushFaultSets(n) == {f \in SUBSET PushFaults : Cardinality(f) <= n}

\* variant: a failed push raises out of transcribe_real
PushRaisesOnFault(failed) == failed # {}

\* main.py:167-178, 419-420, 462-463: whatever the request raises is caught
\* in patch_progress, and again around the call
PushRaises(failed) == FALSE

\* total_ms of transcribe_real: int(total_ms_hint) if total_ms_hint else None
TotalOf(hint) == IF hint = NoProgress \/ hint = 0 THEN NoProgress ELSE hint

\* segments of one ASR run appended to acc, idx counting on from idx0 and
\* times shifted by offset_ms
RECURSIVE AppendSpans(_, _, _, _)
AppendSpans(acc, out, idx0, offset_ms) ==
  IF out = <<>> THEN acc
  ELSE AppendSpans(
         Append(acc, [idx |-> idx0, startMs |-> Head(out).startMs + offset_ms,
                      endMs |-> Head(out).endMs + offset_ms,
                      text |-> [kind |-> "asr", first |-> idx0, n |-> 1]]),
         Tail(out), idx0 + 1, offset_ms)

\* whole-file path: enumerate() numbers the segments from 0
WholeSegments(out) == AppendSpans(<<>>, out, 0, 0)

\* whole-file path: a progress push for every segment with i % 10 == 0
WholeProgress(sg, tot_ms) ==
  LET pushed == SelectSeq(sg, LAMBDA x : x.idx % PROGRESS_EVERY = 0)
  IN Sent([k \in 1..Len(pushed) |-> ProgressPayload(pushed[k].endMs, tot_ms)])

\* variant: the end of the chunk, whatever the total
ChunkProcessedUncapped(k, tot_ms) ==
  k * CHUNK_SECONDS * 1000 + CHUNK_SECONDS * 1000

\* chunk path: processed after chunk k (main.py:458)
ChunkProcessed(k, tot_ms) ==
  LET chunk_end == k * CHUNK_SECONDS * 1000 + CHUNK_SECONDS * 1000
  IN Min(IF tot_ms = NoProgress \/ tot_ms = 0 THEN chunk_end ELSE tot_ms,
         chunk_end)

-----------------------------------------------------------------------------
(* Initial state: the worker has read its environment and resolved the     *)
(* endpoints, and stands at the top of the loop of main().                 *)

JobIdle ==
  /\ leased = NoJob /\ leased_base = NoUrl /\ base = NoUrl
  /\ media = NoMedia /\ content = NoContent /\ total_ms = NoProgress
  /\ segments = <<>>
  /\ segs = <<>> /\ idx_counter = 0 /\ chunk_index = 0 /\ n_chunks = 0
  /\ seg_src = <<>> /\ tmp_files = {}
  /\ progress = <<>> /\ tr_faults = {}
  /\ attempts = 0 /\ initial_delay = 0 /\ attempt = 0 /\ delay = 0
  /\ posted = "unset" /\ post_calls = 0 /\ slept = <<>>
  /\ turns = <<>> /\ participants = <<>> /\ label_to_part = <<>>
  /\ seg_part = <<>> /\ create_log = <<>> /\ assign_log = <<>>
  /\ unassigned_seen = <<>> /\ fetched = <<>> /\ diar_status = "none"
  /\ home = 0 /\ held = FALSE /\ lease_calls = 0 /\ outcome = "none"
  /\ calls = {} /\ n_complete = 0 /\ n_fail = 0 /\ fail_msg_len = 0
  /\ raised_in = "none"

\* the same values given to the next state
ResetJob ==
  /\ leased' = NoJob /\ leased_base' = NoUrl /\ base' = NoUrl
  /\ media' = NoMedia /\ content' = NoContent /\ total_ms' = NoProgress
  /\ segments' = <<>>
  /\ segs' = <<>> /\ idx_counter' = 0 /\ chunk_index' = 0 /\ n_chunks' = 0
  /\ seg_src' = <<>> /\ tmp_files' = {}
  /\ progress' = <<>> /\ tr_faults' = {}
  /\ attempts' = 0 /\ initial_delay' = 0 /\ attempt' = 0 /\ delay' = 0
  /\ posted' = "unset" /\ post_calls' = 0 /\ slept' = <<>>
  /\ turns' = <<>> /\ participants' = <<>> /\ label_to_part' = <<>>
  /\ seg_part' = <<>> /\ create_log' = <<>> /\ assign_log' = <<>>
  /\ unassigned_seen' = <<>> /\ fetched' = <<>> /\ diar_status' = "none"
  /\ home' = 0 /\ held' = FALSE /\ lease_calls' = 0 /\ outcome' = "none"
  /\ calls' = {} /\ n_complete' = 0 /\ n_fail' = 0 /\ fail_msg_len' = 0
  /\ raised_in' = "none"

EnvInit ==
  /\ BASE_URLS \in ResolvedLists
  /\ SIMULATE_WORDS_PER_SEG = DEFAULT_WORDS_PER_SEG
  /\ TRANSCRIPTION_RTF = DefaultRtf /\ startup = NoStartup
  /\ word_i = 0 /\ cursor_ms = 0
  /\ WHISPER_AVAILABLE \in BOOLEAN
  /\ SIMULATE_WHISPER \in IF WHISPER_AVAILABLE THEN BOOLEAN ELSE {FALSE}
  /\ CHUNK_SECONDS \in IF WHISPER_AVAILABLE /\ ~SIMULATE_WHISPER THEN {0, 2} ELSE {0}
  /\ DIARIZATION_AVAILABLE \in BOOLEAN
  /\ AUTO_DIARIZATION_ASSIGN \in IF DIARIZATION_AVAILABLE THEN BOOLEAN ELSE {FALSE}

Init ==
  /\ EnvInit
  /\ pc = "loop_top" /\ sweep_i = 1
  /\ last_op = [op |-> "none", url |-> NoUrl, i |-> 0]
  /\ JobIdle

-----------------------------------------------------------------------------
(* The job loop of main() *)

Call(op) == [op |-> op, url |-> base]
Op(op) == [op |-> op, url |-> base, i |-> 0]

\* main.py:291-294: a new iteration; the locals of the previous one are dead
LoopTop ==
  /\ pc = "loop_top"
  /\ pc' = "sweep" /\ sweep_i' = 1
  /\ ResetJob
  /\ UNCHANGED <<env, last_op>>

\* variant: the job's calls always go to the first endpoint of the list
BaseOfFirst(lb) == BASE_URLS[1]

\* main.py:309: base = leased_base or BASE_URLS[0]
BaseOf(lb) == IF lb # NoUrl THEN lb ELSE BASE_URLS[1]

\* variant: the sweep does not stop at the endpoint that returned a job
SweepNoBreak(job, url) ==
  /\ leased' = job /\ leased_base' = url
  /\ base' = BaseOf(url)
  /\ pc' = "sweep"
  /\ sweep_i' = sweep_i + 1

\* main.py:298-301: the endpoint returned a job; break out of the sweep
SweepBreak(job, url) ==
  /\ leased' = job /\ leased_base' = url
  /\ base' = BaseOf(url)
  /\ pc' = "fetch"
  /\ sweep_i' = sweep_i

\* main.py:297-301, 308-311: lease_job returns a job
LeaseJob ==
  /\ pc = "sweep" /\ sweep_i <= Len(BASE_URLS)
  /\ SweepBreak([id |-> 1, mediaFileId |-> 1], BASE_URLS[sweep_i])
  /\ home' = sweep_i /\ held' = TRUE
  /\ lease_calls' = lease_calls + 1
  /\ last_op' = [op |-> "lease", url |-> BASE_URLS[sweep_i], i |-> sweep_i]
  /\ UNCHANGED <<env, media, content, total_ms, segments, trvars, retryvars,
                 diarvars, outcome, calls, n_complete, n_fail, fail_msg_len,
                 raised_in>>

\* main.py:125-127, 298: 204, lease_job returns None; the sweep goes on
LeaseEmpty ==
  /\ pc = "sweep" /\ sweep_i <= Len(BASE_URLS)
  /\ sweep_i' = sweep_i + 1
  /\ lease_calls' = lease_calls + 1
  /\ last_op' = [op |-> "lease", url |-> BASE_URLS[sweep_i], i |-> sweep_i]
  /\ UNCHANGED <<env, pc, jobvars, segments, trvars, retryvars, diarvars, home,
                 held, outcome, calls, n_complete, n_fail, fail_msg_len,
                 raised_in>>

\* variant: a failed lease call ends the sweep
AfterLeaseErrorEndsSweep(i) == Len(BASE_URLS) + 1

\* main.py:302-304: the exception is logged and the next endpoint is polled
AfterLeaseError(i) == i + 1

\* main.py:123, 128-130, 302-304: the lease call raised a RequestException,
\* from the transport or from raise_for_status
LeaseError ==
  /\ pc = "sweep" /\ sweep_i <= Len(BASE_URLS)
  /\ sweep_i' = AfterLeaseError(sweep_i)
  /\ lease_calls' = lease_calls + 1
  /\ last_op' = [op |-> "lease", url |-> BASE_URLS[sweep_i], i |-> sweep_i]
  /\ UNCHANGED <<env, pc, jobvars, segments, trvars, retryvars, diarvars, home,
                 held, outcome, calls, n_complete, n_fail, fail_msg_len,
                 raised_in>>

\* main.py:305-307: no endpoint gave a job; sleep POLL_INTERVAL_SEC, continue
SweepExhausted ==
  /\ pc = "sweep" /\ sweep_i > Len(BASE_URLS)
  /\ leased = NoJob
  /\ pc' = "loop_top"
  /\ slept' = Append(slept, POLL_INTERVAL_SEC)
  /\ UNCHANGED <<env, sweep_i, jobvars, segments, trvars, diarvars, ghost>>
  /\ UNCHANGED <<attempts, initial_delay, attempt, delay, posted, post_calls>>

\* an exception reaches the handlers of main.py:354-359: the job is abandoned
Abandon(handler, stage) ==
  /\ pc' = handler
  /\ raised_in' = stage
  /\ held' = FALSE
  /\ outcome' = "abandoned"

\* main.py:312, 180-191: a request of fetch_media fails
FetchError ==
  /\ pc = "fetch"
  /\ \E got \in {{Call("media")}, {Call("media"), Call("download")}} :
        /\ calls' = calls \cup got
        /\ last_op' = IF Call("download") \in got THEN Op("download")
                      ELSE Op("media")
  /\ Abandon("handler_net", "fetch")
  /\ UNCHANGED <<env, sweep_i, jobvars, segments, trvars, retryvars, diarvars,
                 home, lease_calls, n_complete, n_fail, fail_msg_len>>

\* main.py:312-321: media and content fetched, total_ms set
FetchMedia ==
  /\ pc = "fetch"
  /\ \E m \in Medias :
        /\ media' = m.media /\ content' = m.content
        /\ total_ms' = DurationMs(m.media)
  /\ calls' = calls \cup {Call("media"), Call("download")}
  /\ last_op' = Op("download")
  /\ pc' = IF WHISPER_AVAILABLE /\ ~SIMULATE_WHISPER THEN "transcribe_real"
           ELSE "simulate"
  /\ UNCHANGED <<env, sweep_i, leased, leased_base, base, segments, trvars,
                 retryvars, diarvars, home, held, lease_calls, outcome,
                 n_complete, n_fail, fail_msg_len, raised_in>>

\* main.py:328-336: the simulation path
SimulatedSegments(m, c) ==
  IF ~c.isStr THEN build_placeholder_segments(m, c.size)
  ELSE IF ~m.textual THEN build_placeholder_segments(m, c.size)
  ELSE build_fake_segments(IF Truthy(c) THEN c ELSE SIM_DEFAULT_TEXT)

Simulate ==
  /\ pc = "simulate"
  /\ segments' = SimulatedSegments(media, content)
  /\ pc' = "post"
  /\ UNCHANGED <<env, sweep_i, jobvars, trvars, retryvars, diarvars, ghost>>

-----------------------------------------------------------------------------
(* transcribe_real and the fallbacks around it *)

KeepJob == UNCHANGED <<held, outcome, raised_in>>

\* main.py:324-326: transcribe_real raised; build_fake_segments(content or
\* 'Fallback simulated transcription.') runs inside the handler, and what it
\* raises reaches the handler of main.py:357
MainFallback ==
  LET c == IF Truthy(content) THEN content ELSE FALLBACK_DEFAULT_TEXT
  IN IF build_fake_raises(c)
     THEN Abandon("handler_exc", "transcribe") /\ segments' = segments
     ELSE segments' = build_fake_segments(c) /\ pc' = "post" /\ KeepJob

\* return build_fake_segments(text_content) inside transcribe_real
\* (main.py:377, 402, 421, 437, 467)
ReturnFake ==
  IF build_fake_raises(content) THEN MainFallback
  ELSE segments' = build_fake_segments(content) /\ pc' = "post" /\ KeepJob

\* return segs if segs else build_fake_segments(text_content)
ReturnSegs(sg) ==
  IF sg # <<>> THEN segments' = sg /\ pc' = "post" /\ KeepJob
  ELSE ReturnFake

TrFrame ==
  UNCHANGED <<env, sweep_i, jobvars, retryvars, diarvars, home, lease_calls,
              n_complete, n_fail, fail_msg_len>>

\* main.py:365: the download of the raw bytes raises
TrDownloadError ==
  /\ pc = "transcribe_real"
  /\ calls' = calls \cup {Call("download")} /\ last_op' = Op("download")
  /\ MainFallback
  /\ UNCHANGED trvars /\ TrFrame

\* main.py:365-377: the bytes are written to the source file, the model
\* does not load
TrModelLoadError ==
  /\ pc = "transcribe_real"
  /\ calls' = calls \cup {Call("download")} /\ last_op' = Op("download")
  /\ ReturnFake
  /\ tmp_files' = tmp_files \cup {"src"}
  /\ UNCHANGED trlocals /\ TrFrame

\* main.py:365-396: bytes downloaded and written, model loaded
TrPrepared ==
  /\ pc = "transcribe_real"
  /\ calls' = calls \cup {Call("download")} /\ last_op' = Op("download")
  /\ pc' = IF CHUNK_SECONDS <= 0 THEN "tr_whole" ELSE "tr_split"
  /\ tmp_files' = tmp_files \cup {"src"}
  /\ UNCHANGED <<segments, trlocals>> /\ KeepJob /\ TrFrame

\* main.py:398-402: ffmpeg conversion fails
TrWholeFfmpegFail ==
  /\ pc = "tr_whole"
  /\ ReturnFake
  /\ UNCHANGED <<trvars, calls, last_op>> /\ TrFrame

PushedCalls(pushes) == IF pushes = <<>> THEN {} ELSE {Call("progress")}
PushedOp(pushes) == IF pushes = <<>> THEN last_op ELSE Op("progress")

\* main.py:404-420: the engine raises, at once or after some segments
TrWholeRaise ==
  /\ pc = "tr_whole"
  /\ \E out \in AsrOutputs :
        LET sg == WholeSegments(out)
            pushes == WholeProgress(sg, TotalOf(total_ms))
        IN /\ segs' = sg
           /\ progress' = pushes
           /\ calls' = calls \cup PushedCalls(pushes)
           /\ last_op' = PushedOp(pushes)
           /\ \E failed \in PushFaultSets(Len(pushes)) :
                 tr_faults' = failed \cup {"engine"}
  /\ MainFallback
  /\ tmp_files' = tmp_files \cup {"wav"}
  /\ UNCHANGED <<idx_counter, chunk_index, n_chunks, seg_src>> /\ TrFrame

\* main.py:404-421: the whole file transcribed
TrWhole ==
  /\ pc = "tr_whole"
  /\ \E out \in AsrOutputs :
        LET sg == WholeSegments(out)
            pushes == WholeProgress(sg, TotalOf(total_ms))
        IN /\ segs' = sg
           /\ progress' = pushes
           /\ calls' = calls \cup PushedCalls(pushes)
           /\ last_op' = PushedOp(pushes)
           /\ \E failed \in PushFaultSets(Len(pushes)) :
                 /\ tr_faults' = failed
                 /\ IF PushRaises(failed) THEN MainFallback ELSE ReturnSegs(sg)
  /\ tmp_files' = tmp_files \cup {"wav"}
  /\ UNCHANGED <<idx_counter, chunk_index, n_chunks, seg_src>> /\ TrFrame

\* main.py:428-437: ffmpeg chunking fails
TrSplitFail ==
  /\ pc = "tr_split"
  /\ ReturnFake
  /\ UNCHANGED <<trvars, calls, last_op>> /\ TrFrame

\* variant: the numbering starts again with every chunk
NextIdxPerChunk(counter, n) == 0

\* main.py:456: idx_counter += 1 for each of the n segments appended
NextIdx(counter, n) == counter + n

\* variant: the offset left in seconds
OffsetSeconds(k) == k * CHUNK_SECONDS

\* main.py:448: offset_ms = chunk_index * CHUNK_SECONDS * 1000
OffsetMs(k) == k * CHUNK_SECONDS * 1000

\* the chunk and the engine's own times of the segments of one run
SrcSpans(acc, out, k) ==
  acc \o [n \in 1..Len(out) |->
            [chunk |-> k, startMs |-> out[n].startMs, endMs |-> out[n].endMs]]

\* main.py:428-440: the chunk files are written
TrSplit ==
  /\ pc = "tr_split"
  /\ n_chunks' \in 1..MaxChunks
  /\ idx_counter' = 0 /\ chunk_index' = 0
  /\ pc' = "tr_chunk"
  /\ tmp_files' = tmp_files \cup {"chunks"}
  /\ UNCHANGED <<segments, segs, seg_src, progress, tr_faults, calls, last_op>>
  /\ KeepJob /\ TrFrame

\* main.py:445-463, 466: one chunk transcribed, progress pushed
TrChunk ==
  /\ pc = "tr_chunk" /\ chunk_index < n_chunks
  /\ \E out \in AsrOutputs :
        LET offset_ms == OffsetMs(chunk_index)
        IN /\ segs' = AppendSpans(segs, out, idx_counter, offset_ms)
           /\ seg_src' = SrcSpans(seg_src, out, chunk_index)
           /\ idx_counter' = NextIdx(idx_counter, Len(out))
  /\ LET pushes == Sent(<<ProgressPayload(
                               ChunkProcessed(chunk_index, TotalOf(total_ms)),
                               TotalOf(total_ms))>>)
     IN /\ progress' = progress \o pushes
        /\ calls' = calls \cup PushedCalls(pushes)
        /\ last_op' = PushedOp(pushes)
        /\ \E failed \in PushFaultSets(Len(pushes)) :
              tr_faults' = tr_faults \cup failed
  /\ chunk_index' = chunk_index + 1
  /\ UNCHANGED <<pc, segments, n_chunks, tmp_files>> /\ KeepJob /\ TrFrame

\* variant: a failed chunk ends the loop over the chunks
AfterChunkFailureStops(k) == n_chunks

\* main.py:464-466: the failure is printed and chunk_index += 1 follows
AfterChunkFailure(k) == k + 1

\* main.py:445-456, 464-466: the chunk's transcription raises, at once or
\* after some segments were appended; the next chunk follows
TrChunkFail ==
  /\ pc = "tr_chunk" /\ chunk_index < n_chunks
  /\ \E out \in AsrOutputs :
        LET offset_ms == OffsetMs(chunk_index)
        IN /\ segs' = AppendSpans(segs, out, idx_counter, offset_ms)
           /\ seg_src' = SrcSpans(seg_src, out, chunk_index)
           /\ idx_counter' = NextIdx(idx_counter, Len(out))
  /\ chunk_index' = AfterChunkFailure(chunk_index)
  /\ tr_faults' = tr_faults \cup {"engine"}
  /\ UNCHANGED <<pc, segments, n_chunks, progress, calls, last_op, tmp_files>>
  /\ KeepJob /\ TrFrame

\* main.py:443-444, 467: no further chunk file; the chunk directory is
\* removed as its with-block is left
TrChunksDone ==
  /\ pc = "tr_chunk" /\ chunk_index >= n_chunks
  /\ ReturnSegs(segs)
  /\ tmp_files' = tmp_files \ {"chunks"}
  /\ UNCHANGED <<trlocals, calls, last_op>> /\ TrFrame

-----------------------------------------------------------------------------
(* post_segments_with_retry *)

RetryFrameNoDiar ==
  UNCHANGED <<env, sweep_i, jobvars, segments, trvars, home, held,
              lease_calls, outcome, n_complete, n_fail, fail_msg_len, raised_in>>

RetryFrame == RetryFrameNoDiar /\ UNCHANGED diarvars

\* main.py:337, 270-271: the call with the default attempts and initial delay.
\* No later line reads the content, the duration, the media's fields other
\* than its id, or the locals of transcribe_real: they are cleared here.
CallPost ==
  /\ pc = "post"
  /\ attempts' = DEFAULT_ATTEMPTS /\ initial_delay' = DEFAULT_INITIAL_DELAY
  /\ delay' = DEFAULT_INITIAL_DELAY /\ attempt' = 1
  /\ pc' = "retry"
  /\ media' = [NoMedia EXCEPT !.id = media.id]
  /\ content' = NoContent /\ total_ms' = NoProgress
  /\ segs' = <<>> /\ idx_counter' = 0 /\ chunk_index' = 0 /\ n_chunks' = 0
  /\ seg_src' = <<>>
  /\ progress' = <<>> /\ tr_faults' = {}
  /\ UNCHANGED <<posted, post_calls, slept, calls, last_op, tmp_files>>
  /\ UNCHANGED <<env, sweep_i, leased, leased_base, base, segments, diarvars,
                 home, held, lease_calls, outcome, n_complete, n_fail,
                 fail_msg_len, raised_in>>

\* variant: the delay grows by a constant step instead of doubling
NextDelayLinear(d) == d + 1

\* main.py:280: delay *= 2
NextDelay(d) == d * 2

\* main.py:277: if attempt == attempts
LastAttempt(a, n) == a = n

\* main.py:273-274: the post succeeds and its result is returned
PostOk ==
  /\ pc = "retry" /\ attempt <= attempts
  /\ post_calls' = post_calls + 1
  /\ calls' = calls \cup {Call("segments")} /\ last_op' = Op("segments")
  /\ posted' = "ok"
  /\ seg_part' = [k \in 1..Len(segments) |-> 0]
  /\ pc' = "after_post"
  /\ UNCHANGED <<attempts, initial_delay, attempt, delay, slept>>
  /\ UNCHANGED <<turns, participants, label_to_part, create_log, assign_log,
                 unassigned_seen, fetched, diar_status>>
  /\ RetryFrameNoDiar

\* main.py:275-280: the post raises
PostFail ==
  /\ pc = "retry" /\ attempt <= attempts
  /\ post_calls' = post_calls + 1
  /\ calls' = calls \cup {Call("segments")} /\ last_op' = Op("segments")
  /\ IF LastAttempt(attempt, attempts)
     THEN /\ posted' = "none" /\ pc' = "after_post"
          /\ UNCHANGED <<attempt, delay, slept>>
     ELSE /\ slept' = Append(slept, delay)
          /\ delay' = NextDelay(delay)
          /\ attempt' = attempt + 1
          /\ UNCHANGED <<posted, pc>>
  /\ UNCHANGED <<attempts, initial_delay>> /\ RetryFrame

\* main.py:272: range(1, attempts + 1) is empty; the function returns None
RetryNoAttempts ==
  /\ pc = "retry" /\ attempt > attempts
  /\ posted' = "none" /\ pc' = "after_post"
  /\ UNCHANGED <<attempts, initial_delay, attempt, delay, post_calls, slept,
                 calls, last_op>>
  /\ RetryFrame

-----------------------------------------------------------------------------
(* After the post: fail, diarization, complete, and the loop's handlers *)

\* variant: without the continue, the body goes on after the fail call
AfterBulkFailureFallThrough ==
  pc' = IF DIARIZATION_AVAILABLE THEN "diar" ELSE "complete"

\* main.py:344: continue
AfterBulkFailure == pc' = "loop_top"

\* main.py:148: message[:500]
Truncated(len) == Min(len, FAIL_MESSAGE_CAP)

\* main.py:338-344: the batch was not persisted; fail_job is called and what
\* it raises is logged
BulkFailed ==
  /\ pc = "after_post" /\ posted = "none"
  /\ n_fail' = n_fail + 1
  /\ fail_msg_len' = Truncated(BULK_FAIL_MESSAGE_LEN)
  /\ calls' = calls \cup {Call("fail")} /\ last_op' = Op("fail")
  /\ held' = FALSE /\ outcome' = "failed"
  /\ AfterBulkFailure
  /\ UNCHANGED <<env, sweep_i, jobvars, segments, trvars, retryvars, diarvars,
                 home, lease_calls, n_complete, raised_in>>

\* variant: the diarization pass is left out
StageAfterPostSkipsDiarization == "complete"

\* main.py:347-352: the diarization pass runs when available, then complete
StageAfterPost == IF DIARIZATION_AVAILABLE THEN "diar" ELSE "complete"

\* main.py:345-347: the batch is persisted; the retry's locals are gone
Persisted ==
  /\ pc = "after_post" /\ posted = "ok"
  /\ pc' = StageAfterPost
  /\ attempts' = 0 /\ initial_delay' = 0 /\ attempt' = 0 /\ delay' = 0
  /\ post_calls' = 0 /\ slept' = <<>>
  /\ UNCHANGED <<env, sweep_i, jobvars, segments, trvars, posted, diarvars,
                 ghost>>

\* main.py:352-353: complete_job returns; the iteration ends
CompleteOk ==
  /\ pc = "complete"
  /\ n_complete' = n_complete + 1
  /\ calls' = calls \cup {Call("complete")} /\ last_op' = Op("complete")
  /\ held' = FALSE /\ outcome' = "completed"
  /\ pc' = "loop_top"
  /\ UNCHANGED <<env, sweep_i, jobvars, segments, trvars, retryvars, diarvars,
                 home, lease_calls, n_fail, fail_msg_len, raised_in>>

\* main.py:352, 137-141: complete_job raises a RequestException
CompleteError ==
  /\ pc = "complete"
  /\ n_complete' = n_complete + 1
  /\ calls' = calls \cup {Call("complete")} /\ last_op' = Op("complete")
  /\ Abandon("handler_net", "complete")
  /\ UNCHANGED <<env, sweep_i, jobvars, segments, trvars, retryvars, diarvars,
                 home, lease_calls, n_fail, fail_msg_len>>

\* main.py:354-356: log, sleep, next iteration
HandlerNet ==
  /\ pc = "handler_net"
  /\ pc' = "loop_top"
  /\ UNCHANGED <<env, sweep_i, jobvars, segments, trvars, retryvars, diarvars,
                 ghost>>

\* variant: the handler marks the job failed before the next iteration
HandlerExcFails ==
  /\ pc = "handler_exc"
  /\ pc' = "loop_top"
  /\ n_fail' = n_fail + 1
  /\ calls' = calls \cup {Call("fail")} /\ last_op' = Op("fail")
  /\ UNCHANGED <<env, sweep_i, jobvars, segments, trvars, retryvars, diarvars,
                 home, held, lease_calls, outcome, n_complete, fail_msg_len,
                 raised_in>>

\* main.py:357-359: log, sleep, next iteration
HandlerExc ==
  /\ pc = "handler_exc"
  /\ pc' = "loop_top"
  /\ UNCHANGED <<env, sweep_i, jobvars, segments, trvars, retryvars, diarvars,
                 ghost>>

-----------------------------------------------------------------------------
(* run_diarization: data and helpers *)

Labels == {"SPEAKER_00", "SPEAKER_01"}
NoLabel == "none"

\* a turn of the engine: start and end in engine time units, and its label
Turn(start_ms, end_ms, label) ==
  [start |-> start_ms * TimeResolution, end |-> end_ms * TimeResolution,
   label |-> label]

\* int(x) of a non-negative or negative quotient: truncation toward zero
TruncDiv(x, d) == IF x >= 0 THEN x \div d ELSE -((-x) \div d)

\* main.py:608-609: int(segment.start * 1000)
ToMs(t) == TruncDiv(t, TimeResolution)

\* main.py:632: int(((segment.start + segment.end) * 1000) / 2)
TurnCenter(t) == TruncDiv(t.start + t.end, 2 * TimeResolution)

\* main.py:637: int((startMs + endMs) / 2)
SegMid(sg) == TruncDiv(sg.startMs + sg.endMs, 2)

\* main.py:580-585: the labels in the order they are first seen
RECURSIVE OrderedLabels(_, _)
OrderedLabels(ts, acc) ==
  IF ts = <<>> THEN acc
  ELSE OrderedLabels(Tail(ts),
         IF \E k \in 1..Len(acc) : acc[k] = Head(ts).label THEN acc
         ELSE Append(acc, Head(ts).label))

\* a participant's name: "Participant n" when default, else a name a user chose
DefaultName(n) == [default |-> TRUE, n |-> n]
UserName(n) == [default |-> FALSE, n |-> n]

\* variant: the "+ 1" bound to the right operand of "or" only
DisplayIndexMisgrouped(first_seen, n_mapped) ==
  IF first_seen # 0 THEN first_seen ELSE n_mapped + 1

\* main.py:592: (first_seen.get(label, len(label_to_part)) or 0) + 1
DisplayIndex(first_seen, n_mapped) == first_seen + 1

\* backend, POST participants: the stored participant, with a fresh id
BackendCreate(parts, name, key) ==
  [id |-> Len(parts) + 1, name |-> name, canonicalKey |-> key]

\* variant: the lookup reads a field the participants do not carry
KeyMatchesMissingField(p, label) == NoLabel = label

\* main.py:590: p.get('canonicalKey') == label
KeyMatches(p, label) == p.canonicalKey = label

\* main.py:588-602: labels k.. of ordered mapped to participants; budget is
\* the number of creations the backend accepts before one fails
RECURSIVE MapLabels(_, _, _, _, _, _)
MapLabels(ordered, k, parts, l2p, log, budget) ==
  IF k > Len(ordered)
  THEN [parts |-> parts, l2p |-> l2p, log |-> log, failed |-> FALSE]
  ELSE LET label == ordered[k]
           same == {i \in 1..Len(parts) : KeyMatches(parts[i], label)}
           payload == [name |-> DefaultName(DisplayIndex(k - 1, Cardinality(DOMAIN l2p))),
                       canonicalKey |-> label]
       IN IF same # {}
          THEN LET existing == parts[CHOOSE i \in same : \A j \in same : i <= j]
               IN MapLabels(ordered, k + 1, parts,
                            l2p @@ (label :> existing.id), log, budget)
          ELSE IF budget = 0
          THEN [parts |-> parts, l2p |-> l2p, log |-> Append(log, payload),
                failed |-> TRUE]
          ELSE LET created == BackendCreate(parts, payload.name, label)
               IN MapLabels(ordered, k + 1, Append(parts, created),
                            l2p @@ (label :> created.id),
                            Append(log, payload), budget - 1)

\* backend, assign-participant by interval: the segments overlapping
\* [start_ms, end_ms) get the participant
BackendAssignInterval(sp, sgs, pid, start_ms, end_ms) ==
  [k \in 1..Len(sp) |->
     IF sgs[k].startMs < end_ms /\ sgs[k].endMs > start_ms THEN pid ELSE sp[k]]

\* backend, assign-participant by segmentIds (a segment's id is its idx)
BackendAssignIds(sp, sgs, pid, ids) ==
  [k \in 1..Len(sp) |->
     IF \E n \in 1..Len(ids) : ids[n] = sgs[k].idx THEN pid ELSE sp[k]]

\* variant: a call that fails ends the loop over the turns
NextTurnUnlessFailed(ts, k, accepted) == IF accepted THEN k + 1 ELSE Len(ts) + 1

\* main.py:616-619: a rejected or failed call is logged; the loop goes on
NextTurn(ts, k, accepted) == k + 1

\* main.py:604-619: one assignment call per turn from turn k on; ok holds the
\* turns whose call the backend accepts
RECURSIVE AssignTurns(_, _, _, _, _, _, _)
AssignTurns(ts, k, l2p, sgs, sp, log, ok) ==
  IF k > Len(ts) THEN [sp |-> sp, log |-> log]
  ELSE LET pid == l2p[ts[k].label]
           start_ms == ToMs(ts[k].start)
           end_ms == ToMs(ts[k].end)
           call == [kind |-> "interval", participantId |-> pid,
                    startMs |-> start_ms, endMs |-> end_ms, segmentIds |-> <<>>,
                    ok |-> k \in ok]
       IN AssignTurns(ts, NextTurn(ts, k, k \in ok), l2p, sgs,
                      IF k \in ok
                      THEN BackendAssignInterval(sp, sgs, pid, start_ms, end_ms)
                      ELSE sp,
                      Append(log, call), ok)

\* variant: a later turn at the same distance replaces the earlier one
CloserOrEqual(d, best_d) == d <= best_d

\* main.py:643: if best_d is None or d < best_d
Closer(d, best_d) == d < best_d

\* main.py:639-645: the label of the nearest turn centre, from turn k on
RECURSIVE NearestLoop(_, _, _, _, _)
NearestLoop(ts, k, mid, best, best_d) ==
  IF k > Len(ts) THEN best
  ELSE LET d == Abs(TurnCenter(ts[k]) - mid)
       IN IF best = NoLabel \/ Closer(d, best_d)
          THEN NearestLoop(ts, k + 1, mid, ts[k].label, d)
          ELSE NearestLoop(ts, k + 1, mid, best, best_d)

NearestLabel(ts, sg) == NearestLoop(ts, 1, SegMid(sg), NoLabel, 0)

\* main.py:636-651: assign_map as a sequence of [pid, ids] in insertion
\* order, built from the unassigned segments un[k..]
RECURSIVE BuildAssignMap(_, _, _, _, _)
BuildAssignMap(un, k, ts, l2p, amap) ==
  IF k > Len(un) THEN amap
  ELSE LET pid == l2p[NearestLabel(ts, un[k])]
           at == {n \in 1..Len(amap) : amap[n].pid = pid}
       IN BuildAssignMap(un, k + 1, ts, l2p,
            IF at = {}
            THEN Append(amap, [pid |-> pid, ids |-> <<un[k].idx>>])
            ELSE [n \in 1..Len(amap) |->
                    IF n \in at
                    THEN [pid |-> pid, ids |-> Append(amap[n].ids, un[k].idx)]
                    ELSE amap[n]])

\* main.py:653-665: one batch call per participant of assign_map; ok holds
\* the batches the backend accepts
RECURSIVE AssignBatches(_, _, _, _, _, _)
AssignBatches(amap, k, sgs, sp, log, ok) ==
  IF k > Len(amap) THEN [sp |-> sp, log |-> log]
  ELSE LET call == [kind |-> "ids", participantId |-> amap[k].pid,
                    startMs |-> 0, endMs |-> 0, segmentIds |-> amap[k].ids,
                    ok |-> k \in ok]
       IN AssignBatches(amap, k + 1, sgs,
                        IF k \in ok
                        THEN BackendAssignIds(sp, sgs, amap[k].pid, amap[k].ids)
                        ELSE sp,
                        Append(log, call), ok)

\* variant: the fill-pass runs only when there are several turns
FillGuardSeveral(un, ts) == un # <<>> /\ Len(ts) > 1

\* main.py:628: if unassigned and turns
FillGuard(un, ts) == un # <<>> /\ ts # <<>>

\* backend, GET segments filtered by main.py:627
Unassigned(sgs, sp) ==
  LET at == {k \in 1..Len(sgs) : sp[k] = 0}
      RECURSIVE Pick(_)
      Pick(k) == IF k > Len(sgs) THEN <<>>
                 ELSE IF k \in at THEN <<sgs[k]>> \o Pick(k + 1)
                 ELSE Pick(k + 1)
  IN Pick(1)

\* participants a media may already have
ExistingLists ==
  {<<>>,
   <<[id |-> 1, name |-> UserName(1), canonicalKey |-> "SPEAKER_01"]>>,
   <<[id |-> 1, name |-> DefaultName(1), canonicalKey |-> NoLabel],
     [id |-> 2, name |-> UserName(2), canonicalKey |-> "SPEAKER_00"]>>}

\* turn lists the engine reports in the job loop
MainTurnLists ==
  {<<>>,
   <<Turn(0, 2000, "SPEAKER_00")>>,
   <<Turn(0, 800, "SPEAKER_01"), Turn(1200, 2000, "SPEAKER_00")>>}

-----------------------------------------------------------------------------
(* run_diarization: the steps *)

DiarFrameButFiles ==
  UNCHANGED <<env, sweep_i, jobvars, segments, trlocals, retryvars, home,
              lease_calls, n_complete, n_fail, fail_msg_len>>

DiarFrame == DiarFrameButFiles /\ UNCHANGED tmp_files

\* main.py:552-568: the finally block removes the source file, the waveform
\* and the capped waveform
DiarCleanup(files) == files \ {"diar_src", "diar_wav", "diar_cap"}

\* main.py:514-541: the files run_diarization may have written when its try
\* block is left: the source file, the waveform, the capped waveform
DiarFileSets ==
  {{"diar_src"}, {"diar_src", "diar_wav"}, {"diar_src", "diar_wav", "diar_cap"}}

\* main.py:513-568: files written, try block left, finally block run
DiarFiles == \E w \in DiarFileSets : tmp_files' = DiarCleanup(tmp_files \cup w)

\* run_diarization returns (or main.py:350-351 logs what it raised)
DiarReturn(status) == pc' = "complete" /\ diar_status' = status

\* variant: main does not catch what run_diarization raises
DiarizationEscapes ==
  /\ diar_status' = "raised"
  /\ Abandon("handler_exc", "diarization")

\* main.py:348-351: an exception of run_diarization is logged by main
DiarizationRaised == DiarReturn("raised") /\ KeepJob

\* main.py:479-491: HF_HUB_OFFLINE is not '1' and there is no token
DiarNoToken ==
  /\ pc = "diar"
  /\ DiarReturn("no_token")
  /\ UNCHANGED <<turns, participants, label_to_part, seg_part, create_log,
                 assign_log, unassigned_seen, fetched, calls, last_op>>
  /\ KeepJob /\ DiarFrame

\* main.py:496-509: the model does not load (gated or not) or is not callable
DiarLoadError ==
  /\ pc = "diar"
  /\ DiarReturn("load_error")
  /\ UNCHANGED <<turns, participants, label_to_part, seg_part, create_log,
                 assign_log, unassigned_seen, fetched, calls, last_op>>
  /\ KeepJob /\ DiarFrame

\* main.py:482-495, 507: the pipeline is loaded, offline or with the token
DiarLoaded ==
  /\ pc = "diar"
  /\ pc' = "diar_run"
  /\ UNCHANGED <<diarvars, calls, last_op>>
  /\ KeepJob /\ DiarFrame

\* main.py:510: the download raises
DiarDownloadError ==
  /\ pc = "diar_run"
  /\ calls' = calls \cup {Call("download")} /\ last_op' = Op("download")
  /\ DiarizationRaised
  /\ UNCHANGED <<turns, participants, label_to_part, seg_part, create_log,
                 assign_log, unassigned_seen, fetched>>
  /\ DiarFrame

\* main.py:521-525: ffmpeg conversion fails; the function returns
DiarFfmpegFail ==
  /\ pc = "diar_run"
  /\ calls' = calls \cup {Call("download")} /\ last_op' = Op("download")
  /\ DiarReturn("ffmpeg_failed")
  /\ UNCHANGED <<turns, participants, label_to_part, seg_part, create_log,
                 assign_log, unassigned_seen, fetched>>
  /\ DiarFiles
  /\ KeepJob /\ DiarFrameButFiles

\* main.py:549, 570: the inference or the reading of its tracks raises
DiarInferenceError ==
  /\ pc = "diar_run"
  /\ calls' = calls \cup {Call("download")} /\ last_op' = Op("download")
  /\ DiarizationRaised
  /\ UNCHANGED <<turns, participants, label_to_part, seg_part, create_log,
                 assign_log, unassigned_seen, fetched>>
  /\ DiarFiles
  /\ DiarFrameButFiles

\* main.py:510-573: the turns are collected
DiarTurns ==
  /\ pc = "diar_run"
  /\ calls' = calls \cup {Call("download")} /\ last_op' = Op("download")
  /\ turns' \in MainTurnLists
  /\ IF AUTO_DIARIZATION_ASSIGN
     THEN pc' = "diar_participants" /\ diar_status' = "turns"
     ELSE DiarReturn("turns")
  /\ UNCHANGED <<participants, label_to_part, seg_part, create_log, assign_log,
                 unassigned_seen, fetched>>
  /\ DiarFiles
  /\ KeepJob /\ DiarFrameButFiles

\* main.py:576-577, 669-670: the participants request fails
DiarParticipantsError ==
  /\ pc = "diar_participants"
  /\ calls' = calls \cup {Call("participants")} /\ last_op' = Op("participants")
  /\ DiarReturn("participants_failed")
  /\ UNCHANGED <<turns, participants, label_to_part, seg_part, create_log,
                 assign_log, unassigned_seen, fetched>>
  /\ KeepJob /\ DiarFrame

\* main.py:576-602: participants fetched, labels mapped, missing ones created
MapLabelsFrom(existing, budget) ==
  LET ordered == OrderedLabels(turns, <<>>)
      r == MapLabels(ordered, 1, existing, <<>>, <<>>, budget)
  IN /\ fetched' = existing
     /\ participants' = r.parts
     /\ label_to_part' = r.l2p
     /\ create_log' = r.log
     /\ calls' = calls \cup {Call("participants")} \cup
                   (IF r.log = <<>> THEN {} ELSE {Call("createParticipant")})
     /\ last_op' = IF r.log = <<>> THEN Op("participants")
                   ELSE Op("createParticipant")
     /\ IF r.failed THEN DiarReturn("create_failed")
        ELSE pc' = "diar_assign" /\ diar_status' = "mapped"

DiarMapLabels ==
  /\ pc = "diar_participants"
  /\ \E existing \in ExistingLists :
     \E budget \in 0..Cardinality(Labels) :
        MapLabelsFrom(existing, budget)
  /\ UNCHANGED <<turns, seg_part, assign_log, unassigned_seen>>
  /\ KeepJob /\ DiarFrame

\* main.py:603-620: the interval assignment of every turn
DiarAssignTurns ==
  /\ pc = "diar_assign"
  /\ \E ok \in SUBSET (1..Len(turns)) :
        LET r == AssignTurns(turns, 1, label_to_part, segments, seg_part, <<>>, ok)
        IN /\ seg_part' = r.sp
           /\ assign_log' = r.log
           /\ calls' = calls \cup (IF r.log = <<>> THEN {} ELSE {Call("assign")})
           /\ last_op' = IF r.log = <<>> THEN last_op ELSE Op("assign")
  /\ pc' = "diar_fill" /\ diar_status' = "assigned"
  /\ UNCHANGED <<turns, participants, label_to_part, create_log,
                 unassigned_seen, fetched>>
  /\ KeepJob /\ DiarFrame

\* main.py:623-626, 667-668: the segments request fails
DiarFillFetchError ==
  /\ pc = "diar_fill"
  /\ calls' = calls \cup {Call("getSegments")} /\ last_op' = Op("getSegments")
  /\ DiarReturn("fill_fetch_failed")
  /\ UNCHANGED <<turns, participants, label_to_part, seg_part, create_log,
                 assign_log, unassigned_seen, fetched>>
  /\ KeepJob /\ DiarFrame

\* main.py:623-666: the fill-pass
DiarFillPass ==
  /\ pc = "diar_fill"
  /\ LET un == Unassigned(segments, seg_part)
         amap == IF FillGuard(un, turns)
                 THEN BuildAssignMap(un, 1, turns, label_to_part, <<>>)
                 ELSE <<>>
     IN /\ unassigned_seen' = [k \in 1..Len(un) |-> un[k].idx]
        /\ \E ok \in SUBSET (1..Len(amap)) :
              LET r == AssignBatches(amap, 1, segments, seg_part, assign_log, ok)
              IN /\ seg_part' = r.sp
                 /\ assign_log' = r.log
        /\ calls' = calls \cup {Call("getSegments")} \cup
                      (IF amap = <<>> THEN {} ELSE {Call("assign")})
        /\ last_op' = IF amap = <<>> THEN Op("getSegments") ELSE Op("assign")
  /\ DiarReturn("filled")
  /\ UNCHANGED <<turns, participants, label_to_part, create_log, fetched>>
  /\ KeepJob /\ DiarFrame

-----------------------------------------------------------------------------
(* The worker *)

Sweep == LeaseJob \/ LeaseEmpty \/ LeaseError \/ SweepExhausted

Transcribe ==
  \/ Simulate
  \/ TrDownloadError \/ TrModelLoadError \/ TrPrepared
  \/ TrWholeFfmpegFail \/ TrWholeRaise \/ TrWhole
  \/ TrSplitFail \/ TrSplit \/ TrChunk \/ TrChunkFail \/ TrChunksDone

Retry == PostOk \/ PostFail

Diarize ==
  \/ DiarNoToken \/ DiarLoadError \/ DiarLoaded
  \/ DiarDownloadError \/ DiarFfmpegFail \/ DiarInferenceError \/ DiarTurns

AutoAssign ==
  \/ DiarParticipantsError \/ DiarMapLabels \/ DiarAssignTurns
  \/ DiarFillFetchError \/ DiarFillPass

Next ==
  \/ LoopTop \/ Sweep
  \/ FetchError \/ FetchMedia
  \/ Transcribe
  \/ CallPost \/ Retry
  \/ BulkFailed \/ Persisted
  \/ Diarize \/ AutoAssign
  \/ CompleteOk \/ CompleteError
  \/ HandlerNet \/ HandlerExc

Spec == Init /\ [][Next]_vars

\* the loop never stops taking steps: every wait of the body is bounded
\* (request timeouts, time.sleep) and the loop has no exit
FairSpec == Spec /\ WF_vars(Next)

-----------------------------------------------------------------------------
(* post_segments_with_retry on its own, for any attempts and initial delay *)

TheJob == [id |-> 1, mediaFileId |-> 1]

\* the state of a job leased from the first endpoint, its media fetched
HeldJob ==
  /\ BASE_URLS = <<BASE_URL>>
  /\ CHUNK_SECONDS = 0
  /\ SIMULATE_WORDS_PER_SEG = DEFAULT_WORDS_PER_SEG
  /\ TRANSCRIPTION_RTF = DefaultRtf /\ startup = NoStartup
  /\ word_i = 0 /\ cursor_ms = 0
  /\ sweep_i = 1
  /\ leased = TheJob /\ leased_base = BASE_URL /\ base = BASE_URL
  /\ media = [NoMedia EXCEPT !.id = 1] /\ content = NoContent
  /\ total_ms = NoProgress
  /\ segs = <<>> /\ idx_counter = 0 /\ chunk_index = 0 /\ n_chunks = 0
  /\ seg_src = <<>> /\ tmp_files = {}
  /\ progress = <<>> /\ tr_faults = {}
  /\ home = 1 /\ held = TRUE /\ lease_calls = 1 /\ outcome = "none"
  /\ calls = {[op |-> "media", url |-> BASE_URL],
              [op |-> "download", url |-> BASE_URL]}
  /\ n_complete = 0 /\ n_fail = 0 /\ fail_msg_len = 0
  /\ raised_in = "none"

RetrySegmentLists == {<<>>, build_fake_segments(SIM_DEFAULT_TEXT)}

InitRetry ==
  /\ HeldJob
  /\ WHISPER_AVAILABLE = FALSE /\ SIMULATE_WHISPER = FALSE
  /\ DIARIZATION_AVAILABLE = FALSE /\ AUTO_DIARIZATION_ASSIGN = FALSE
  /\ pc = "retry"
  /\ segments \in RetrySegmentLists
  /\ attempts \in 0..MaxAttempts
  /\ initial_delay \in 0..MaxDelay
  /\ delay = initial_delay /\ attempt = 1
  /\ posted = "unset" /\ post_calls = 0 /\ slept = <<>>
  /\ turns = <<>> /\ participants = <<>> /\ label_to_part = <<>>
  /\ seg_part = <<>> /\ create_log = <<>> /\ assign_log = <<>>
  /\ unassigned_seen = <<>> /\ fetched = <<>> /\ diar_status = "none"
  /\ last_op = [op |-> "download", url |-> BASE_URL, i |-> 0]

NextRetry == PostOk \/ PostFail \/ RetryNoAttempts

SpecRetry == InitRetry /\ [][NextRetry]_vars

-----------------------------------------------------------------------------
(* The auto-assignment of run_diarization on its own, for any turn list *)

\* spans of turns in engine time units (TimeResolution units are 1 ms)
TurnSpans == {<<0, 2>>, <<2, 4>>, <<0, 8>>}

TurnSet ==
  {[start |-> sp[1], end |-> sp[2], label |-> lb] :
     sp \in TurnSpans, lb \in Labels}

DiarTurnLists == UNION {[1..n -> TurnSet] : n \in 0..MaxTurns}

Seg(idx, start_ms, end_ms) ==
  [idx |-> idx, startMs |-> start_ms, endMs |-> end_ms,
   text |-> [kind |-> "asr", first |-> idx, n |-> 1]]

DiarSegLists ==
  {<<Seg(0, 0, 2)>>,
   <<Seg(0, 0, 1), Seg(1, 1, 3)>>,
   <<Seg(0, 2, 5), Seg(1, 6, 9)>>}

InitDiar ==
  /\ HeldJob
  /\ WHISPER_AVAILABLE = TRUE /\ SIMULATE_WHISPER = FALSE
  /\ DIARIZATION_AVAILABLE = TRUE /\ AUTO_DIARIZATION_ASSIGN = TRUE
  /\ pc = "diar_participants"
  /\ segments \in DiarSegLists
  /\ seg_part = [k \in 1..Len(segments) |-> 0]
  /\ turns \in DiarTurnLists
  /\ attempts = 0 /\ initial_delay = 0 /\ attempt = 0 /\ delay = 0
  /\ posted = "ok" /\ post_calls = 0 /\ slept = <<>>
  /\ participants = <<>> /\ label_to_part = <<>>
  /\ create_log = <<>> /\ assign_log = <<>>
  /\ unassigned_seen = <<>> /\ fetched = <<>> /\ diar_status = "turns"
  /\ last_op = [op |-> "download", url |-> BASE_URL, i |-> 0]

NextDiar == AutoAssign

SpecDiar == InitDiar /\ [][NextDiar]_vars

-----------------------------------------------------------------------------
(* Properties of the job loop *)

JobPcs ==
  {"fetch", "simulate", "transcribe_real", "tr_whole", "tr_split", "tr_chunk",
   "post", "retry", "after_post", "diar", "diar_run", "diar_participants",
   "diar_assign", "diar_fill", "complete"}

DiarPcs == {"diar", "diar_run", "diar_participants", "diar_assign", "diar_fill"}

Handlers == {"handler_net", "handler_exc"}

\* C1: every backend call made for a leased job (media fetch, download,
\* progress, segment post, participants, assignment, complete, fail) goes to
\* the endpoint whose lease call returned the job, and to no other endpoint.
C1_CallsGoToLeasingEndpoint ==
  home # 0 =>
    /\ home \in 1..Len(BASE_URLS)
    /\ \A c \in calls : c.url = BASE_URLS[home]

\* a job leased from the second of two different endpoints has been fetched,
\* persisted and completed there
C1_Witness ==
  /\ home = 2 /\ BASE_URLS[1] # BASE_URLS[2]
  /\ outcome = "completed"
  /\ {[op |-> o, url |-> BASE_URLS[2]] : o \in {"media", "segments", "complete"}}
       \subseteq calls

\* C2: the worker holds at most one job: it is in the per-job body exactly
\* while it holds a job, and no lease call is made while a job is held, that
\* is before the job is completed, marked failed, or abandoned on an exception.
C2_OneJobAtATime ==
  /\ [](held <=> pc \in JobPcs)
  /\ [][lease_calls' = lease_calls + 1 => ~held]_vars

\* a job from the first of two endpoints is held up to the complete call and
\* the second endpoint was not polled in that iteration
C2_Witness ==
  /\ held /\ home = 1 /\ Len(BASE_URLS) = 2 /\ lease_calls = 1
  /\ pc = "complete"

\* C3: on every path transcription hands a non-empty segment sequence to the
\* persister and no exception of the transcription stage reaches the loop.
C3_TranscriptionNonEmptyNoRaise ==
  /\ pc = "post" => segments # <<>>
  /\ raised_in # "transcribe"

RECURSIVE Pow2(_)
Pow2(n) == IF n = 0 THEN 1 ELSE 2 * Pow2(n - 1)

\* the sleeps d, 2d, 4d, ... taken after the first n failed posts
Backoff(d, n) == [i \in 1..n |-> d * Pow2(i - 1)]

\* C4: with attempts = n and initial delay d, the retry makes exactly n post
\* calls when all fail and exactly k when the k-th is the first to succeed;
\* the sleep after the i-th failure is d * 2^(i-1) and there is none after
\* the last attempt.
C4_RetryCountAndBackoff ==
  /\ pc = "retry" =>
       /\ post_calls = attempt - 1
       /\ slept = Backoff(initial_delay, attempt - 1)
  /\ pc = "after_post" /\ posted = "ok" =>
       /\ post_calls = attempt /\ post_calls \in 1..attempts
       /\ slept = Backoff(initial_delay, post_calls - 1)
  /\ pc = "after_post" /\ posted = "none" =>
       /\ post_calls = attempts
       /\ slept = Backoff(initial_delay, Max(attempts - 1, 0))

\* the defaults, every post failing: three calls, sleeps of 2 s and 4 s
C4_Witness ==
  /\ pc = "after_post" /\ posted = "none"
  /\ attempts = 3 /\ initial_delay = 2
  /\ post_calls = 3 /\ slept = <<2, 4>>

\* C5: when every post attempt fails, the worker calls fail once with a
\* message of at most 500 characters, calls neither complete nor diarization,
\* posts no more for that job, and its next action is a new lease sweep.
C5_BulkFailure ==
  /\ [](n_fail > 0 =>
          /\ outcome = "failed" /\ n_fail = 1
          /\ fail_msg_len \in 1..500
          /\ n_complete = 0 /\ diar_status = "none"
          /\ posted = "none" /\ post_calls = attempts
          /\ pc = "loop_top")
  /\ [][pc = "after_post" /\ posted = "none" =>
          n_fail' = 1 /\ pc' = "loop_top"]_vars
  /\ [][n_fail > 0 => pc' = "sweep" /\ sweep_i' = 1 /\ lease_calls' = 0]_vars
  /\ [][last_op.op = "fail" /\ last_op' # last_op =>
          last_op'.op = "lease" /\ last_op'.i = 1]_vars

\* three failed posts with sleeps of 2 s and 4 s, then the fail call
C5_Witness ==
  /\ outcome = "failed" /\ n_fail = 1 /\ last_op.op = "fail"
  /\ post_calls = 3 /\ slept = <<2, 4>>
  /\ fail_msg_len = 40

\* C6 as stated: when a step of the body raises (the complete call included),
\* the worker has issued neither complete nor fail for that job.
C6_NeitherCompleteNorFail ==
  outcome = "abandoned" => n_complete = 0 /\ n_fail = 0

\* C6: when a step of the body raises into the loop's handlers, the worker
\* issues no fail call for the job and no complete call other than the one
\* that raised; the handler makes no backend call, the process goes on and
\* eventually starts a new lease sweep at the first endpoint.
C6_AbandonedJobNotReleased ==
  /\ [](outcome = "abandoned" =>
          /\ n_fail = 0
          /\ n_complete = IF raised_in = "complete" THEN 1 ELSE 0
          /\ ~held)
  /\ [][(pc \in Handlers) =>
          (pc' = "loop_top" /\ UNCHANGED <<n_complete, n_fail, calls>>)]_vars
  /\ (pc \in Handlers ~> (pc = "sweep" /\ sweep_i = 1 /\ lease_calls = 0))

\* the complete call raised: one complete call was issued, the job is
\* abandoned and the network handler runs
C6_Witness ==
  /\ pc = "handler_net" /\ outcome = "abandoned"
  /\ raised_in = "complete" /\ n_complete = 1 /\ n_fail = 0

\* C7: for a job whose segments were persisted, complete is called exactly
\* once whatever the diarization step does (skipped, failed, raised or
\* succeeded), and never together with fail.
C7_CompleteOncePersisted ==
  /\ [](n_complete <= 1)
  /\ [](n_complete = 1 => n_fail = 0 /\ posted = "ok")
  /\ [](posted = "ok" /\ ~held => n_complete = 1)
  /\ [][(pc \in DiarPcs) => pc' \in DiarPcs \cup {"complete"}]_vars
  /\ [][pc = "complete" => n_complete' = n_complete + 1]_vars
  /\ ((pc = "after_post" /\ posted = "ok") ~> n_complete = 1)

\* run_diarization raised and the job was completed once all the same
C7_Witness ==
  /\ outcome = "completed" /\ diar_status = "raised"
  /\ n_complete = 1 /\ n_fail = 0

-----------------------------------------------------------------------------
(* Properties of the auto-assignment *)

\* statuses of a pass that went into the auto-assignment and returned
AutoAssignEnded ==
  {"participants_failed", "create_failed", "fill_fetch_failed", "filled"}

\* statuses at which the label mapping has run
LabelsMapped ==
  {"create_failed", "mapped", "assigned", "fill_fetch_failed", "filled"}

SeqRange(q) == {q[n] : n \in 1..Len(q)}

\* the persisted segment with the given id
SegOfId(id) == CHOOSE sg \in SeqRange(segments) : sg.idx = id

\* the fill-pass batch calls that carry the given segment id
BatchesOf(id) ==
  {n \in 1..Len(assign_log) :
     assign_log[n].kind = "ids" /\ id \in SeqRange(assign_log[n].segmentIds)}

\* distance of a turn's centre to a segment's midpoint, both in whole
\* milliseconds as the code truncates them
TruncatedDistance(t, sg) == Abs(TurnCenter(t) - SegMid(sg))

\* the same distance without truncation, in units of 1/(2 * TimeResolution) ms
ExactDistance(t, sg) ==
  Abs((t.start + t.end) - TimeResolution * (sg.startMs + sg.endMs))

\* the first turn of ts among those nearest to sg under distance D
FirstNearest(ts, sg, D(_, _)) ==
  CHOOSE i \in 1..Len(ts) :
    /\ \A j \in 1..Len(ts) : D(ts[i], sg) <= D(ts[j], sg)
    /\ \A j \in 1..(i - 1) : D(ts[j], sg) > D(ts[i], sg)

\* every segment the fill-pass found unassigned is in exactly one batch, the
\* one of the participant of its first nearest turn under D
FillFollows(D(_, _)) ==
  diar_status = "filled" /\ turns # <<>> =>
    \A n \in 1..Len(unassigned_seen) :
      LET id == unassigned_seen[n]
          near == turns[FirstNearest(turns, SegOfId(id), D)]
      IN /\ Cardinality(BatchesOf(id)) = 1
         /\ \A b \in BatchesOf(id) :
              assign_log[b].participantId = label_to_part[near.label]

\* C8 as stated: the fill-pass gives each unassigned segment the participant
\* of the turn whose centre (start + end) / 2 is nearest to the segment's
\* midpoint (startMs + endMs) / 2, ties going to the first such turn.
C8_FillNearestExactCentre == FillFollows(ExactDistance)

\* C8: the fill-pass gives each unassigned segment the participant of the
\* turn whose centre is nearest to the segment's midpoint, both truncated to
\* whole milliseconds; ties on the truncated distance go to the first turn.
C8_FillNearestTruncatedCentre == FillFollows(TruncatedDistance)

\* a fill-pass over two turns of different labels that are equally near, on
\* truncated values, to a segment it found unassigned
C8_Witness ==
  /\ diar_status = "filled" /\ Len(turns) = 2
  /\ turns[1].label # turns[2].label
  /\ \E n \in 1..Len(unassigned_seen) :
       LET sg == SegOfId(unassigned_seen[n])
       IN /\ TruncatedDistance(turns[1], sg) = TruncatedDistance(turns[2], sg)
          /\ BatchesOf(sg.idx) # {}

FirstTurnOf(lb) ==
  CHOOSE i \in 1..Len(turns) :
    turns[i].label = lb /\ \A j \in 1..(i - 1) : turns[j].label # lb

\* one plus the number of distinct labels first seen before lb
RankOf(lb) ==
  1 + Cardinality({turns[j].label : j \in 1..(FirstTurnOf(lb) - 1)})

FetchedWith(lb) == {i \in 1..Len(fetched) : fetched[i].canonicalKey = lb}

\* C10: a label with no participant of equal canonicalKey gets a participant
\* created with name "Participant N", N one plus the label's rank among the
\* distinct labels in first-seen order, and canonicalKey the label; a label
\* with an existing participant of equal canonicalKey reuses that participant
\* and its name is left unchanged.
C10_ParticipantNaming ==
  diar_status \in LabelsMapped =>
    /\ \A e \in 1..Len(create_log) :
         LET lb == create_log[e].canonicalKey
         IN /\ lb \in {turns[j].label : j \in 1..Len(turns)}
            /\ create_log[e].name = DefaultName(RankOf(lb))
            /\ FetchedWith(lb) = {}
            /\ \A e2 \in 1..Len(create_log) :
                 e2 # e => create_log[e2].canonicalKey # lb
    /\ \A lb \in DOMAIN label_to_part :
         IF FetchedWith(lb) # {}
         THEN /\ \E i \in FetchedWith(lb) :
                   /\ \A j \in FetchedWith(lb) : i <= j
                   /\ label_to_part[lb] = fetched[i].id
              /\ \A e \in 1..Len(create_log) : create_log[e].canonicalKey # lb
         ELSE \E i \in 1..Len(participants) :
                /\ participants[i].id = label_to_part[lb]
                /\ participants[i].canonicalKey = lb
                /\ participants[i].name = DefaultName(RankOf(lb))
    /\ \A i \in 1..Len(fetched) : participants[i] = fetched[i]
    /\ diar_status # "create_failed" =>
         DOMAIN label_to_part = {turns[j].label : j \in 1..Len(turns)}

\* the first label reuses a participant a user renamed and the second label
\* has "Participant 2" created for it
C10_Witness ==
  /\ diar_status = "filled"
  /\ Len(fetched) = 1 /\ fetched[1].name = UserName(1)
  /\ turns # <<>> /\ turns[1].label = fetched[1].canonicalKey
  /\ Len(create_log) = 1 /\ create_log[1].name = DefaultName(2)
  /\ participants[1] = fetched[1]

-----------------------------------------------------------------------------
(* Sequential diarization passes over one media: the participants the      *)
(* backend holds after a pass are the ones the next pass fetches.          *)

PassSegments == <<Seg(0, 0, 1), Seg(1, 1, 3)>>

InitPasses ==
  /\ HeldJob
  /\ WHISPER_AVAILABLE = TRUE /\ SIMULATE_WHISPER = FALSE
  /\ DIARIZATION_AVAILABLE = TRUE /\ AUTO_DIARIZATION_ASSIGN = TRUE
  /\ pc = "diar_participants"
  /\ segments = PassSegments
  /\ seg_part = [k \in 1..Len(segments) |-> 0]
  /\ turns \in DiarTurnLists
  /\ attempts = 0 /\ initial_delay = 0 /\ attempt = 0 /\ delay = 0
  /\ posted = "ok" /\ post_calls = 0 /\ slept = <<>>
  /\ participants \in ExistingLists /\ label_to_part = <<>>
  /\ create_log = <<>> /\ assign_log = <<>>
  /\ unassigned_seen = <<>> /\ fetched = <<>> /\ diar_status = "turns"
  /\ last_op = [op |-> "download", url |-> BASE_URL, i |-> 0]

\* main.py:576-602 in a pass that follows others: the request returns the
\* participants the media has by now
PassMapLabels ==
  /\ pc = "diar_participants"
  /\ \E budget \in 0..Cardinality(Labels) : MapLabelsFrom(participants, budget)
  /\ UNCHANGED <<turns, seg_part, assign_log, unassigned_seen>>
  /\ KeepJob /\ DiarFrame

\* main.py:347-349, 570-574: a later job of the same media has its segments
\* persisted and gets its turns; the locals of the earlier pass are gone
NextPass ==
  /\ pc = "complete"
  /\ pc' = "diar_participants" /\ diar_status' = "turns"
  /\ turns' \in DiarTurnLists
  /\ seg_part' = [k \in 1..Len(segments) |-> 0]
  /\ label_to_part' = <<>> /\ create_log' = <<>> /\ assign_log' = <<>>
  /\ unassigned_seen' = <<>> /\ fetched' = <<>>
  /\ UNCHANGED <<participants, calls, last_op>>
  /\ KeepJob /\ DiarFrame

NextPasses ==
  \/ DiarParticipantsError \/ PassMapLabels \/ DiarAssignTurns
  \/ DiarFillFetchError \/ DiarFillPass
  \/ NextPass

SpecPasses == InitPasses /\ [][NextPasses]_vars

\* C11: after any number of sequential passes over one media, with any turn
\* lists, no two participants of the media share a canonicalKey; a pass makes
\* at most one creation call per distinct label and none for a label that a
\* fetched participant already carries as canonicalKey.
C11_CanonicalKeyUnique ==
  /\ \A i, j \in 1..Len(participants) :
       i # j => participants[i].canonicalKey # participants[j].canonicalKey
  /\ \A e1, e2 \in 1..Len(create_log) :
       e1 # e2 => create_log[e1].canonicalKey # create_log[e2].canonicalKey
  /\ diar_status \in LabelsMapped =>
       \A e \in 1..Len(create_log) :
         /\ create_log[e].canonicalKey \in {turns[k].label : k \in 1..Len(turns)}
         /\ \A i \in 1..Len(fetched) :
              fetched[i].canonicalKey # create_log[e].canonicalKey

\* a pass that fetched a participant an earlier pass created for a label,
\* met the label again and created a participant for the other label only
C11_Witness ==
  /\ diar_status = "filled"
  /\ Len(fetched) = 1 /\ fetched[1].name = DefaultName(1)
  /\ fetched[1].canonicalKey \in {turns[k].label : k \in 1..Len(turns)}
  /\ Len(create_log) = 1 /\ Len(participants) = 2

\* the interval assignment calls of the pass, in the order they were made
IntervalCalls == SelectSeq(assign_log, LAMBDA c : c.kind = "interval")

\* ms is the whole number of milliseconds in the engine time t
WholeMsOf(t, ms) ==
  ms * TimeResolution <= t /\ t < (ms + 1) * TimeResolution

\* C12 as stated: with auto-assignment enabled, a pass issues exactly one
\* interval assignment call for every turn.
C12_OneCallPerTurnAlways ==
  pc = "complete" /\ diar_status \in AutoAssignEnded =>
    Len(IntervalCalls) = Len(turns)

\* C12: with auto-assignment enabled and the participants fetched and every
\* missing one created, exactly one interval assignment call is issued for
\* every turn, in turn order, with the turn's participant and its start and
\* end in whole milliseconds, whether or not earlier calls were accepted;
\* when the participants request or a creation fails no call is issued.
C12_OneCallPerTurn ==
  /\ diar_status \in {"assigned", "fill_fetch_failed", "filled"} =>
       /\ Len(IntervalCalls) = Len(turns)
       /\ \A k \in 1..Len(turns) :
            /\ assign_log[k] = IntervalCalls[k]
            /\ IntervalCalls[k].participantId = label_to_part[turns[k].label]
            /\ WholeMsOf(turns[k].start, IntervalCalls[k].startMs)
            /\ WholeMsOf(turns[k].end, IntervalCalls[k].endMs)
  /\ diar_status \in {"participants_failed", "create_failed"} =>
       assign_log = <<>>

\* the call of the first of two turns failed and the call of the second was
\* made and accepted
C12_Witness ==
  /\ diar_status = "assigned" /\ Len(turns) = 2
  /\ Len(assign_log) = 2
  /\ ~assign_log[1].ok /\ assign_log[2].ok

-----------------------------------------------------------------------------
(* Properties of the segment sequences *)

\* nominal length of a chunk in milliseconds
ChunkMs == CHUNK_SECONDS * 1000

\* C13 as stated: for chunks i < j every segment of chunk i ends by
\* j * ChunkMs and every segment of chunk j starts at or after j * ChunkMs.
C13_ChunksDoNotOverlap ==
  \A a, b \in 1..Len(seg_src) :
    seg_src[a].chunk < seg_src[b].chunk =>
      /\ segs[a].endMs <= seg_src[b].chunk * ChunkMs
      /\ segs[b].startMs >= seg_src[b].chunk * ChunkMs

\* C13: every segment of chunk j carries the engine's times shifted by
\* exactly j * ChunkMs, so it starts at or after j * ChunkMs, and chunks
\* follow one another in the sequence; for chunks i < j a segment of chunk i
\* ends by j * ChunkMs, and starts no later than the segments of chunk j,
\* whenever the engine reported its times within the chunk's nominal length.
C13_ChunkOffsets ==
  pc \in {"tr_chunk", "post"} /\ CHUNK_SECONDS > 0 =>
    /\ Len(seg_src) = Len(segs)
    /\ \A k \in 1..Len(segs) :
         /\ segs[k].startMs = seg_src[k].startMs + seg_src[k].chunk * ChunkMs
         /\ segs[k].endMs = seg_src[k].endMs + seg_src[k].chunk * ChunkMs
         /\ segs[k].startMs >= seg_src[k].chunk * ChunkMs
    /\ \A a, b \in 1..Len(segs) :
         /\ a < b => seg_src[a].chunk <= seg_src[b].chunk
         /\ seg_src[a].chunk < seg_src[b].chunk /\ seg_src[a].endMs <= ChunkMs =>
              /\ segs[a].endMs <= seg_src[b].chunk * ChunkMs
              /\ segs[a].startMs <= segs[b].startMs
    /\ pc = "post" /\ segs # <<>> => segments = segs

\* a chunked transcription returned segments of the first and second chunk
C13_Witness ==
  /\ pc = "post" /\ CHUNK_SECONDS > 0 /\ segments = segs
  /\ Len(seg_src) >= 2
  /\ seg_src[1].chunk = 0 /\ seg_src[Len(seg_src)].chunk = 1
  /\ segs[Len(segs)].startMs >= ChunkMs

\* C14: the segment sequence handed to the persister has idx 0, 1, ..., n-1
\* in order, without duplicate or gap, on every production path.
C14_IdxSequential ==
  pc \in {"post", "retry", "after_post"} =>
    \A k \in 1..Len(segments) : segments[k].idx = k - 1

\* a chunked transcription whose first chunk gave nothing and whose second
\* chunk gave two segments
C14_Witness ==
  /\ pc = "post" /\ CHUNK_SECONDS > 0 /\ n_chunks = 2
  /\ segments = segs /\ Len(segments) = 2
  /\ seg_src[1].chunk = 1

(***************************************************************************)
(* build_fake_segments on its own: a text of equally long words and a      *)
(* SIMULATE_WORDS_PER_SEG setting are drawn, and the function is applied.  *)
(***************************************************************************)
MaxWords == 18
MaxWordsPerSeg == 9

WordLens == {1, 100}
FakeWordCounts == (0..MaxWords) \cup {max_segments + 1}

\* a str of nwords words of wlen characters, one space apart
TextOf(nwords, wlen) ==
  [isStr |-> TRUE, words |-> nwords,
   size |-> IF nwords = 0 THEN 0 ELSE nwords * wlen + (nwords - 1)]

FakeTexts == {TextOf(n, l) : n \in FakeWordCounts, l \in WordLens}

InitFake ==
  /\ BASE_URLS = <<BASE_URL>>
  /\ WHISPER_AVAILABLE = FALSE /\ SIMULATE_WHISPER = FALSE
  /\ DIARIZATION_AVAILABLE = FALSE /\ AUTO_DIARIZATION_ASSIGN = FALSE
  /\ CHUNK_SECONDS = 0
  /\ SIMULATE_WORDS_PER_SEG \in 0..MaxWordsPerSeg
  /\ TRANSCRIPTION_RTF = DefaultRtf /\ startup = NoStartup
  /\ word_i = 0 /\ cursor_ms = 0
  /\ pc = "fake_call" /\ sweep_i = 1
  /\ leased = NoJob /\ leased_base = NoUrl /\ base = NoUrl
  /\ media = NoMedia /\ content \in FakeTexts /\ total_ms = NoProgress
  /\ segments = <<>>
  /\ segs = <<>> /\ idx_counter = 0 /\ chunk_index = 0 /\ n_chunks = 0
  /\ seg_src = <<>> /\ tmp_files = {}
  /\ progress = <<>> /\ tr_faults = {}
  /\ attempts = 0 /\ initial_delay = 0 /\ attempt = 0 /\ delay = 0
  /\ posted = "unset" /\ post_calls = 0 /\ slept = <<>>
  /\ turns = <<>> /\ participants = <<>> /\ label_to_part = <<>>
  /\ seg_part = <<>> /\ create_log = <<>> /\ assign_log = <<>>
  /\ unassigned_seen = <<>> /\ fetched = <<>> /\ diar_status = "none"
  /\ home = 0 /\ held = FALSE /\ lease_calls = 0 /\ outcome = "none"
  /\ calls = {} /\ n_complete = 0 /\ n_fail = 0 /\ fail_msg_len = 0
  /\ raised_in = "none"
  /\ last_op = [op |-> "none", url |-> NoUrl, i |-> 0]

FakeFrame ==
  UNCHANGED <<BASE_URLS, WHISPER_AVAILABLE, SIMULATE_WHISPER,
              DIARIZATION_AVAILABLE, AUTO_DIARIZATION_ASSIGN, CHUNK_SECONDS,
              SIMULATE_WORDS_PER_SEG, TRANSCRIPTION_RTF, startup, sweep_i,
              jobvars,
              trvars, retryvars,
              diarvars, ghost>>

\* main.py:203-210: build_fake_segments(content) is entered
FakeCall ==
  /\ pc = "fake_call"
  /\ segments' = <<>> /\ word_i' = 0 /\ cursor_ms' = 0
  /\ pc' = "fake_loop"
  /\ FakeFrame

\* main.py:211-225: one pass of the loop
FakeStep ==
  /\ pc = "fake_loop"
  /\ FakeMore(content.words, word_i, Len(segments))
  /\ LET chunk_size == Max(1, SIMULATE_WORDS_PER_SEG)
         seg == FakeSegment(content.words, WordLen(content), chunk_size,
                            word_i, Len(segments), cursor_ms)
     IN /\ segments' = Append(segments, seg)
        /\ cursor_ms' = NextCursor(seg.endMs)
        /\ word_i' = word_i + chunk_size
  /\ UNCHANGED pc
  /\ FakeFrame

\* main.py:226: return segs
FakeReturn ==
  /\ pc = "fake_loop"
  /\ ~FakeMore(content.words, word_i, Len(segments))
  /\ pc' = "fake_done"
  /\ UNCHANGED <<segments, word_i, cursor_ms>>
  /\ FakeFrame

NextFake == FakeCall \/ FakeStep \/ FakeReturn

SpecFake == InitFake /\ [][NextFake]_vars

\* ceil(n / c) for c >= 1
CeilDiv(n, c) == (n + c - 1) \div c

\* the segments are numbered, timed and filled as the loop of
\* build_fake_segments does it; Chars(n, wlen) is the length of the text
FakeShape(Chars(_, _)) ==
  pc = "fake_done" =>
    LET N == content.words
        C == Max(1, SIMULATE_WORDS_PER_SEG)
        count == Min(CeilDiv(N, C), 500)
    IN /\ Len(segments) = count
       /\ \A i \in 0..(count - 1) :
            LET sg == segments[i + 1]
                n == Min(C, N - i * C)
            IN /\ sg.idx = i
               /\ sg.text.kind = "words"
               /\ sg.text.first = i * C /\ sg.text.n = n
               /\ sg.text.chars = Chars(n, WordLen(content))
               /\ sg.endMs = sg.startMs + 320 * n
               /\ sg.startMs = IF i = 0 THEN 0 ELSE segments[i].endMs + 120
       /\ N = 10 /\ C = 8 =>
            /\ <<segments[1].startMs, segments[1].endMs>> = <<0, 2560>>
            /\ <<segments[2].startMs, segments[2].endMs>> = <<2680, 3320>>

WholeWords(n, wlen) == n * wlen + (n - 1)
CutWords(n, wlen) == Min(n * wlen + (n - 1), 500)

\* C15 as stated: min(ceil(N/C), 500) segments with idx 0..count-1, segment i
\* holding all of the words i*C .. i*C+C-1, lasting 320 ms per word, each
\* starting 120 ms after the one before and the first at 0.
C15_SegmentHoldsWholeWords == FakeShape(WholeWords)

\* C15: min(ceil(N/C), 500) segments with idx 0..count-1, segment i holding
\* the words i*C .. i*C+C-1 joined by single spaces and cut to 500
\* characters, lasting 320 ms per word, each starting 120 ms after the one
\* before and the first at 0.
C15_FakeSegments == FakeShape(CutWords)

\* ten short words in chunks of eight: [0,2560) and [2680,3320)
C15_Witness ==
  /\ pc = "fake_done" /\ content.words = 10 /\ SIMULATE_WORDS_PER_SEG = 8
  /\ Len(segments) = 2
  /\ segments[2].startMs = 2680 /\ segments[2].endMs = 3320

\* more than 500 chunks of words: the list stops at 500 segments
C15_CapWitness ==
  /\ pc = "fake_done" /\ content.words > 500 * Max(1, SIMULATE_WORDS_PER_SEG)
  /\ Len(segments) = 500

\* a chunk of words longer than 500 characters
C15_CutWitness ==
  /\ pc = "fake_done" /\ Len(segments) > 0
  /\ WholeWords(segments[1].text.n, WordLen(content)) > 500
  /\ segments[1].text.chars = 500

\* a simulated job whose media is 320000 bytes of binary content with no
\* declared duration has handed its placeholder segments to the persister
PlaceholderCase ==
  /\ pc = "post" /\ ~content.isStr /\ content.size = 320000
  /\ media.durationSec = 0
  /\ WHISPER_AVAILABLE => SIMULATE_WHISPER

\* twelve segments numbered from 0, segment i spanning [pitch*i, pitch*i+len)
PlaceholderGrid(pitch, len) ==
  /\ Len(segments) = 12
  /\ \A i \in 0..11 :
       /\ segments[i + 1].idx = i
       /\ segments[i + 1].startMs = pitch * i
       /\ segments[i + 1].endMs = pitch * i + len

\* C16 as stated: 320000 bytes with no declared duration are estimated at
\* 10000 ms and give 12 segments of 833 ms pitch, segment i spanning
\* [833*i, 833*i + 633).
C16_Pitch833 == PlaceholderCase => PlaceholderGrid(833, 633)

\* C16: 320000 bytes with no declared duration are estimated at 10000 ms,
\* which is raised to the floor of 12000 ms (one second per segment), and
\* give 12 segments of 1000 ms pitch, each ending 200 ms before the next one
\* starts: segment i spans [1000*i, 1000*i + 800).
C16_PlaceholderSegments ==
  PlaceholderCase =>
    /\ PlaceholderGrid(1000, 800)
    /\ \A k \in 1..11 : segments[k].endMs + 200 = segments[k + 1].startMs

C16_Witness ==
  /\ PlaceholderCase
  /\ Len(segments) = 12 /\ segments[12].text.kind = "simulated"
  /\ segments[12].endMs = 11800

\* the real path ended without a segment of the engine: what is handed to
\* the persister came from a fallback
FellBack ==
  /\ pc = "post" /\ WHISPER_AVAILABLE /\ ~SIMULATE_WHISPER
  /\ segs = <<>>

\* C17: whenever the real transcription path falls back, the returned
\* sequence is the one the simulation step produces for the same media (word
\* chunks for textual content, the placeholder segments for binary content),
\* it is never empty, and the fallback does not raise.
C17_FallbackAsSimulated ==
  /\ FellBack =>
       /\ segments = SimulatedSegments(media, content)
       /\ segments # <<>>
  /\ raised_in # "transcribe"

\* the stages that write temporary files are under way
FileStagePcs == {"transcribe_real", "tr_whole", "tr_split", "tr_chunk", "diar_run"}

\* C18: every temporary file written while processing a job (downloaded
\* source file, transcoded waveform, chunk files, capped diarization
\* waveform) is deleted once the stage that wrote it has ended, on every exit
\* path of the transcription stage and of the diarization stage.
C18_NoTempFileLeft == pc \notin FileStagePcs => tmp_files = {}

\* a progress push of the job in hand has failed
PushFailed == tr_faults \cap PushFaults # {}

\* the payloads a progress call can be given: each field a value or None
ProgressValues == {NoProgress, 0, 1}
Payloads ==
  [processedMs : ProgressValues, totalMs : ProgressValues,
   etaSeconds : ProgressValues]

\* C19: a progress push that fails (transport error or non-success status)
\* neither aborts transcription nor changes what it returns: the segments
\* handed on are the engine's, as without the failure, every chunk is still
\* gone through and the later pushes are still made; a progress call whose
\* three values are all None makes no request.
C19_PushFailureHarmless ==
  /\ pc = "post" /\ PushFailed /\ segs # <<>>
       /\ (CHUNK_SECONDS > 0 \/ "engine" \notin tr_faults)
     => segments = segs
  /\ pc = "post" /\ PushFailed /\ CHUNK_SECONDS > 0
     => /\ chunk_index = n_chunks
        /\ "engine" \notin tr_faults => Len(progress) = n_chunks
  /\ pc = "post" /\ PushFailed /\ CHUNK_SECONDS <= 0 /\ "engine" \notin tr_faults
     => Len(progress) =
          Cardinality({k \in 1..Len(segs) : segs[k].idx % 10 = 0})
  /\ raised_in = "transcribe" /\ PushFailed
     => "engine" \in tr_faults \/ segs = <<>>
  /\ \A k \in 1..Len(progress) : Sends(progress[k])
  /\ \A p \in Payloads :
       Sends(p) <=> ~(/\ p.processedMs = NoProgress
                      /\ p.totalMs = NoProgress
                      /\ p.etaSeconds = NoProgress)

\* the push after the first segment failed on its status, the second segment
\* was still transcribed and both were returned
C19_Witness ==
  /\ pc = "post" /\ CHUNK_SECONDS <= 0
  /\ tr_faults = {"push_http"}
  /\ Len(segs) = 2 /\ segments = segs /\ Len(progress) = 1

\* the push after the first chunk failed, the second chunk was transcribed
C19_ChunkWitness ==
  /\ pc = "post" /\ CHUNK_SECONDS > 0 /\ n_chunks = 2
  /\ tr_faults = {"push_transport"}
  /\ Len(progress) = 2 /\ seg_src # <<>> /\ seg_src[Len(seg_src)].chunk = 1
  /\ segments = segs

\* C20: every sweep starts at the first endpoint and polls the endpoints in
\* list order; the job processed is that of the first endpoint whose lease
\* call returns one; an endpoint whose lease call fails or reports no job is
\* passed over for the next; no endpoint after the winning one is polled; a
\* sweep without a job is followed by a sleep of the poll interval and a new
\* full sweep.
C20_SweepOrder ==
  /\ [](pc = "sweep" => lease_calls = sweep_i - 1 /\ leased = NoJob /\ ~held)
  /\ [][lease_calls' = lease_calls + 1 =>
          /\ pc = "sweep" /\ sweep_i <= Len(BASE_URLS)
          /\ last_op' = [op |-> "lease", url |-> BASE_URLS[lease_calls + 1],
                         i |-> lease_calls + 1]]_vars
  /\ [][(lease_calls' = lease_calls + 1 /\ leased' = NoJob) =>
          (pc' = "sweep" /\ sweep_i' = sweep_i + 1)]_vars
  /\ [][(lease_calls' = lease_calls + 1 /\ leased' # NoJob) =>
          (pc' = "fetch" /\ home' = lease_calls + 1
             /\ leased_base' = BASE_URLS[lease_calls + 1])]_vars
  /\ [](held => lease_calls = home /\ leased_base = BASE_URLS[home]
                  /\ base = leased_base /\ leased # NoJob)
  /\ [][(pc = "sweep" /\ pc' # "sweep" /\ leased' = NoJob) =>
          /\ lease_calls = Len(BASE_URLS)
          /\ slept' = <<POLL_INTERVAL_SEC>>
          /\ pc' = "loop_top"]_vars
  /\ [][pc = "loop_top" =>
          (pc' = "sweep" /\ sweep_i' = 1 /\ lease_calls' = 0)]_vars
  /\ ((pc = "sweep" /\ sweep_i > Len(BASE_URLS))
        ~> (pc = "sweep" /\ sweep_i = 1 /\ lease_calls = 0))

\* the first endpoint's lease call failed or gave nothing and the second
\* endpoint returned the job
C20_Witness ==
  /\ pc = "fetch" /\ held /\ home = 2 /\ lease_calls = 2
  /\ Len(BASE_URLS) >= 2 /\ leased_base = BASE_URLS[2]

\* every endpoint was polled without a job and the worker has slept
C20_SleepWitness ==
  /\ pc = "loop_top" /\ slept = <<POLL_INTERVAL_SEC>>
  /\ lease_calls = Len(BASE_URLS) /\ Len(BASE_URLS) >= 2

\* a backend call of the kind op was made for the job in hand
Made(op) == \E c \in calls : c.op = op

\* C21: for each leased job the stages come in the order media fetch,
\* transcription, segment post, diarization, complete: no segment post
\* before the media fetch, no diarization before a segment post succeeded,
\* no complete call before a segment post succeeded and the diarization
\* stage, when available, returned.
C21_StageOrder ==
  /\ [](Made("segments") => Made("media") /\ Made("download"))
  /\ [](pc \in {"simulate", "transcribe_real", "tr_whole", "tr_split",
                "tr_chunk", "post"}
          => Made("media") /\ ~Made("segments") /\ posted = "unset")
  /\ [](pc \in DiarPcs \/ diar_status # "none"
          => posted = "ok" /\ Made("segments") /\ DIARIZATION_AVAILABLE)
  /\ [][(pc \notin DiarPcs /\ pc' \in DiarPcs)
          => (pc = "after_post" /\ posted = "ok" /\ pc' = "diar")]_vars
  /\ [](pc = "complete" \/ Made("complete")
          => /\ posted = "ok" /\ Made("segments")
             /\ DIARIZATION_AVAILABLE => diar_status # "none")
  /\ [][n_complete' = n_complete + 1
          => /\ pc = "complete" /\ posted = "ok"
             /\ DIARIZATION_AVAILABLE => diar_status # "none"]_vars

\* a job went through fetch, post, the whole diarization pass and complete
C21_Witness ==
  /\ outcome = "completed" /\ n_complete = 1 /\ posted = "ok"
  /\ diar_status \notin {"none", "raised"} /\ assign_log # <<>>
  /\ {"media", "download", "segments", "participants", "complete"}
       \subseteq {c.op : c \in calls}

\* seq a is the beginning of seq b
IsPrefix(a, b) == Len(a) <= Len(b) /\ SubSeq(b, 1, Len(a)) = a

\* C22: in chunked transcription the chunks are transcribed in strictly
\* increasing index order, each existing chunk once; a failure of chunk k
\* removes no segment already appended and the chunks after k are still
\* transcribed and their segments appended.
C22_ChunksInOrder ==
  /\ [](pc = "tr_chunk" =>
          /\ chunk_index <= n_chunks
          /\ \A k \in 1..Len(seg_src) : seg_src[k].chunk < chunk_index
          /\ \A a, b \in 1..Len(seg_src) :
               a < b => seg_src[a].chunk <= seg_src[b].chunk)
  /\ [][(pc = "tr_chunk" /\ pc' = "tr_chunk") =>
          /\ chunk_index < n_chunks /\ chunk_index' = chunk_index + 1
          /\ IsPrefix(segs, segs') /\ IsPrefix(seg_src, seg_src')
          /\ \A k \in (Len(seg_src) + 1)..Len(seg_src') :
               seg_src'[k].chunk = chunk_index]_vars
  /\ [][(pc = "tr_chunk" /\ pc' # "tr_chunk") =>
          (chunk_index = n_chunks /\ UNCHANGED <<segs, seg_src, chunk_index>>)]_vars
  /\ [](pc = "post" /\ CHUNK_SECONDS > 0 /\ segs # <<>> => segments = segs)

\* one of two chunks failed and the segments of both chunks were returned
C22_Witness ==
  /\ pc = "post" /\ CHUNK_SECONDS > 0 /\ n_chunks = 2 /\ chunk_index = 2
  /\ "engine" \in tr_faults
  /\ Len(seg_src) >= 2 /\ seg_src[1].chunk = 0
  /\ seg_src[Len(seg_src)].chunk = 1
  /\ segments = segs

\* min(totalKnown, k * chunkDurationMs + chunkDurationMs) for the job in hand
ExpectedProcessed(k) ==
  LET chunk_end == k * ChunkMs + ChunkMs
  IN IF total_ms > 0 /\ total_ms < chunk_end THEN total_ms ELSE chunk_end

\* the processed values pushed so far never decrease
ProcessedNeverDecreases ==
  \A a, b \in 1..Len(progress) :
    a < b => progress[a].processedMs <= progress[b].processedMs

C23_FailedChunkWitness ==
  /\ pc = "post" /\ CHUNK_SECONDS > 0 /\ n_chunks = 2 /\ chunk_index = 2
  /\ Len(progress) = 1 /\ progress[1].processedMs = 2 * ChunkMs

(***************************************************************************)
(* estimate_eta on its own: a TRANSCRIPTION_RTF setting and a total are    *)
(* drawn, and a progress payload is built for a drawn processed value.     *)
(***************************************************************************)
MaxSeconds == 4

\* settings float() rejects, negative, zero, below and between whole
\* thousandths, the default, one and two
RtfSettings ==
  {[parses |-> FALSE, e4 |-> 0]} \cup
  {[parses |-> TRUE, e4 |-> v] :
     v \in {-5000, 0, 4, 15, 3333, DEFAULT_RTF_E4, 10000, 20000}}

\* total_ms_hint: None, 0, whole seconds, one hour
EtaTotals == {NoProgress} \cup {k * 1000 : k \in 0..MaxSeconds} \cup {3600000}

\* processed values, half a second apart, up to past the largest short total
EtaProcessed == {k * 500 : k \in 0..(2 * MaxSeconds + 2)}

InitEta ==
  /\ BASE_URLS = <<BASE_URL>>
  /\ WHISPER_AVAILABLE = TRUE /\ SIMULATE_WHISPER = FALSE
  /\ DIARIZATION_AVAILABLE = FALSE /\ AUTO_DIARIZATION_ASSIGN = FALSE
  /\ CHUNK_SECONDS = 0
  /\ SIMULATE_WORDS_PER_SEG = DEFAULT_WORDS_PER_SEG
  /\ TRANSCRIPTION_RTF \in RtfSettings /\ startup = NoStartup
  /\ word_i = 0 /\ cursor_ms = 0
  /\ pc = "eta_call" /\ sweep_i = 1
  /\ leased = NoJob /\ leased_base = NoUrl /\ base = NoUrl
  /\ media = NoMedia /\ content = NoContent /\ total_ms \in EtaTotals
  /\ segments = <<>>
  /\ segs = <<>> /\ idx_counter = 0 /\ chunk_index = 0 /\ n_chunks = 0
  /\ seg_src = <<>> /\ tmp_files = {}
  /\ progress = <<>> /\ tr_faults = {}
  /\ attempts = 0 /\ initial_delay = 0 /\ attempt = 0 /\ delay = 0
  /\ posted = "unset" /\ post_calls = 0 /\ slept = <<>>
  /\ turns = <<>> /\ participants = <<>> /\ label_to_part = <<>>
  /\ seg_part = <<>> /\ create_log = <<>> /\ assign_log = <<>>
  /\ unassigned_seen = <<>> /\ fetched = <<>> /\ diar_status = "none"
  /\ home = 0 /\ held = FALSE /\ lease_calls = 0 /\ outcome = "none"
  /\ calls = {} /\ n_complete = 0 /\ n_fail = 0 /\ fail_msg_len = 0
  /\ raised_in = "none"
  /\ last_op = [op |-> "none", url |-> NoUrl, i |-> 0]

\* main.py:382, 389-394, 415-418: total_ms and eta for a processed value,
\* and the payload patch_progress builds from them
EtaCall ==
  /\ pc = "eta_call"
  /\ \E processed \in EtaProcessed :
       progress' = <<ProgressPayload(processed, TotalOf(total_ms))>>
  /\ pc' = "eta_done"
  /\ UNCHANGED <<env, sweep_i, jobvars, segments, segs, idx_counter,
                 chunk_index, n_chunks, seg_src, tr_faults, tmp_files,
                 retryvars, diarvars, ghost>>

NextEta == EtaCall

SpecEta == InitEta /\ [][NextEta]_vars

\* the realtime factor in use, in ten-thousandths: 0.5 for a setting that is
\* unparsable, zero or negative
FactorInUse ==
  IF TRANSCRIPTION_RTF.parses /\ TRANSCRIPTION_RTF.e4 > 0
  THEN TRANSCRIPTION_RTF.e4 ELSE 5000

\* no total: no ETA in the payload; a total: Eta(total, processed) >= 1
EtaShape(Eta(_, _)) ==
  pc = "eta_done" =>
    LET p == progress[1]
    IN IF total_ms = NoProgress \/ total_ms = 0
       THEN p.etaSeconds = NoProgress /\ p.totalMs = NoProgress
       ELSE /\ p.totalMs = total_ms
            /\ p.etaSeconds = Eta(total_ms, p.processedMs)
            /\ p.etaSeconds >= 1

\* max(1, floor((total - processed) / (1000 * realtimeFactor)))
EtaExactFactor(tot, proc) ==
  Max(1, ((tot - proc) * 10) \div FactorInUse)

\* max(1, floor(max(0, total - processed) / max(1, floor(1000 * realtimeFactor))))
EtaWholeMillis(tot, proc) ==
  Max(1, Max(0, tot - proc) \div Max(1, FactorInUse \div 10))

C24_FactorWitness ==
  /\ pc = "eta_done" /\ TRANSCRIPTION_RTF = [parses |-> TRUE, e4 |-> 3333]
  /\ total_ms = 3600000 /\ progress[1].processedMs = 0
  /\ progress[1].etaSeconds = 10810

(***************************************************************************)
(* build_base_list on its own: the entries of RAW_BASE_URLS, AUTO_FALLBACK *)
(* and the reachable addresses are drawn; the list is built, and built     *)
(* again by a later start of the process under any reachability.           *)
(***************************************************************************)
MaxUrls == 2

RawEntries == {BASE_URL, OTHER_URL, FALLBACK_URL, DOCKER_URL, NoUrl}
Probed == {BASE_URL, OTHER_URL, FALLBACK_URL, DOCKER_URL}

RawUrlLists == UNION {[1..n -> RawEntries] : n \in 0..MaxUrls}

Startups ==
  [raw : RawUrlLists, auto : BOOLEAN, healthy : SUBSET Probed]

InitResolve ==
  /\ BASE_URLS = <<>>
  /\ WHISPER_AVAILABLE = FALSE /\ SIMULATE_WHISPER = FALSE
  /\ DIARIZATION_AVAILABLE = FALSE /\ AUTO_DIARIZATION_ASSIGN = FALSE
  /\ CHUNK_SECONDS = 0
  /\ SIMULATE_WORDS_PER_SEG = DEFAULT_WORDS_PER_SEG
  /\ TRANSCRIPTION_RTF = DefaultRtf /\ startup \in Startups
  /\ word_i = 0 /\ cursor_ms = 0
  /\ pc = "startup" /\ sweep_i = 1
  /\ leased = NoJob /\ leased_base = NoUrl /\ base = NoUrl
  /\ media = NoMedia /\ content = NoContent /\ total_ms = NoProgress
  /\ segments = <<>>
  /\ segs = <<>> /\ idx_counter = 0 /\ chunk_index = 0 /\ n_chunks = 0
  /\ seg_src = <<>> /\ tmp_files = {}
  /\ progress = <<>> /\ tr_faults = {}
  /\ attempts = 0 /\ initial_delay = 0 /\ attempt = 0 /\ delay = 0
  /\ posted = "unset" /\ post_calls = 0 /\ slept = <<>>
  /\ turns = <<>> /\ participants = <<>> /\ label_to_part = <<>>
  /\ seg_part = <<>> /\ create_log = <<>> /\ assign_log = <<>>
  /\ unassigned_seen = <<>> /\ fetched = <<>> /\ diar_status = "none"
  /\ home = 0 /\ held = FALSE /\ lease_calls = 0 /\ outcome = "none"
  /\ calls = {} /\ n_complete = 0 /\ n_fail = 0 /\ fail_msg_len = 0
  /\ raised_in = "none"
  /\ last_op = [op |-> "none", url |-> NoUrl, i |-> 0]

ResolveFrame ==
  UNCHANGED <<WHISPER_AVAILABLE, SIMULATE_WHISPER, DIARIZATION_AVAILABLE,
              AUTO_DIARIZATION_ASSIGN, CHUNK_SECONDS, SIMULATE_WORDS_PER_SEG,
              TRANSCRIPTION_RTF, word_i, cursor_ms, sweep_i, jobvars, segments,
              trvars, retryvars, diarvars, ghost>>

\* main.py:118: BASE_URLS = build_base_list()
BuildBaseList ==
  /\ pc = "startup"
  /\ BASE_URLS' = build_base_list(startup.raw, startup.auto, startup.healthy)
  /\ pc' = "resolved"
  /\ UNCHANGED startup
  /\ ResolveFrame

\* main.py:118: the process is started again with the same settings, under
\* whatever reachability holds then
BuildBaseListAgain ==
  /\ pc = "resolved"
  /\ \E h \in SUBSET Probed :
       /\ startup' = [startup EXCEPT !.healthy = h]
       /\ BASE_URLS' = build_base_list(startup.raw, startup.auto, h)
  /\ pc' = "resolved_again"
  /\ ResolveFrame

NextResolve == BuildBaseList \/ BuildBaseListAgain

SpecResolve == InitResolve /\ [][NextResolve]_vars

\* the configured addresses: the non-blank entries, or the default alone
Configured ==
  LET given == SelectSeq(startup.raw, LAMBDA u : u # "")
  IN IF given = <<>> THEN <<"http://backend:5000/api">> ELSE given

\* the address derived for local development
DerivedFallback == "http://host.docker.internal:5002/api"

Resolved == pc \in {"resolved", "resolved_again"}

\* C25 as stated: the resolved list has the length and order of the
\* configured list; an address whose probe succeeds is kept and one whose
\* probe fails is replaced by the derived fallback address, whether or not
\* the fallback's probe succeeds; resolving the same reachable endpoint
\* again yields the same address.
C25_FailedProbeAlwaysReplaced ==
  /\ [](Resolved =>
          /\ Len(BASE_URLS) = Len(Configured)
          /\ \A k \in 1..Len(Configured) :
               BASE_URLS[k] = IF Configured[k] \in startup.healthy
                              THEN Configured[k] ELSE DerivedFallback)
  /\ [][(pc = "resolved" /\ pc' = "resolved_again") =>
          \A k \in 1..Len(Configured) :
            Configured[k] \in startup.healthy \cap startup'.healthy
              => BASE_URLS'[k] = BASE_URLS[k]]_vars

\* C25: the resolved list has the length and order of the configured list
\* (its non-blank entries, or the default address alone). With automatic
\* fallback on, an address not already on the fallback host is kept when its
\* probe succeeds and replaced by the derived fallback address when its
\* probe fails, whether or not the fallback's probe succeeds; with automatic
\* fallback off, or for an address already on the fallback host, the address
\* is kept whatever its probe would say. Resolving the same reachable
\* endpoint again yields the same address.
C25_ResolvedList ==
  /\ [](Resolved =>
          /\ Len(BASE_URLS) = Len(Configured)
          /\ \A k \in 1..Len(Configured) :
               LET u == Configured[k]
                   onFallbackHost ==
                     u \in {"http://host.docker.internal:5002/api",
                            "http://host.docker.internal:8080/api"}
               IN BASE_URLS[k] =
                    IF ~startup.auto \/ onFallbackHost THEN u
                    ELSE IF u \in startup.healthy THEN u
                    ELSE DerivedFallback)
  /\ [][(pc = "resolved" /\ pc' = "resolved_again") =>
          \A k \in 1..Len(Configured) :
            Configured[k] \in startup.healthy \cap startup'.healthy
              => BASE_URLS'[k] = BASE_URLS[k] /\ BASE_URLS[k] = Configured[k]]_vars

\* fallback on, nothing reachable: both configured addresses are replaced
C25_Witness ==
  /\ pc = "resolved" /\ startup.auto /\ startup.healthy = {}
  /\ startup.raw = <<"http://backend:5000/api", "http://backend2:5000/api">>
  /\ BASE_URLS = <<DerivedFallback, DerivedFallback>>

\* fallback off, nothing reachable: the address is kept
C25_KeptWitness ==
  /\ pc = "resolved" /\ ~startup.auto /\ startup.healthy = {}
  /\ startup.raw = <<"http://backend2:5000/api">>
  /\ BASE_URLS = <<"http://backend2:5000/api">>

\* the persister stored segments that build_placeholder_segments made
PlaceholderPosted ==
  /\ posted = "ok" /\ Made("segments")
  /\ pc \in {"retry", "after_post"}
  /\ segments # <<>>
  /\ \A k \in 1..Len(segments) : segments[k].text.kind = "simulated"

\* C26: every placeholder segment posted for binary media has
\* 0 <= startMs < endMs, whatever the declared duration and the file size.
C26_PlaceholderTimesValid ==
  PlaceholderPosted =>
    \A k \in 1..Len(segments) :
      0 <= segments[k].startMs /\ segments[k].startMs < segments[k].endMs

\* a declared duration of 2 s: twelve segments of 166 ms pitch, each ending
\* 34 ms before it starts
C26_ShortDurationPosted ==
  /\ PlaceholderPosted /\ ~content.isStr
  /\ Len(segments) = 12
  /\ \A i \in 0..11 :
       /\ segments[i + 1].startMs = 166 * i
       /\ segments[i + 1].endMs = 166 * i - 34

====
